---------------------------- MODULE Spec2Model ----------------------------
(***************************************************************************)
(* VibeGameDB: the SQLite catalog (games, platforms, game_platforms), the  *)
(* FTS5 search index kept by triggers, and the three-stage autocomplete    *)
(* pipeline of src/handlers/database_handler.py.                           *)
(*                                                                         *)
(* Text is modelled character by character: a string is a sequence of      *)
(* one-character strings, so that normalisation, tokenisation and the      *)
(* difflib ratio are computed as the code computes them.                   *)
(***************************************************************************)
EXTENDS Integers, Sequences, FiniteSets, TLC

(***************************************************************************)
(* Bounds of the model.                                                    *)
(***************************************************************************)
\* the largest limit a search is called with
MaxLimit == 2
\* the mutating requests of a behaviour
MaxWrites == 2
\* the pieces a name given to _normalize_name is made of
MaxPieces == 3
\* the games and platforms of a catalog a search starts from
MaxEntities == 3
\* the games created beside the two searches that are compared
MaxRerunWrites == 1
\* the threads that call the rate limiter, the calls of each, and the ticks
\* the clock moves while no thread sleeps
MaxThreads == 2
MaxCalls == 2
MaxSpare == 1

\* config.IGDB_RATE_LIMIT_PER_SECOND, and the ticks of the clock in a second
IGDB_RATE_LIMIT_PER_SECOND == 4
TicksPerSecond == 4

(***************************************************************************)
(* Characters.                                                             *)
(***************************************************************************)
SPACE == " "
LowerOf == [A |-> "a", B |-> "b", C |-> "c", D |-> "d", E |-> "e", F |-> "f",
            G |-> "g", H |-> "h", I |-> "i", J |-> "j", K |-> "k", L |-> "l",
            M |-> "m", N |-> "n", O |-> "o", P |-> "p", Q |-> "q", R |-> "r",
            S |-> "s", T |-> "t", U |-> "u", V |-> "v", W |-> "w", X |-> "x",
            Y |-> "y", Z |-> "z"]
IsUpper(c) == c \in DOMAIN LowerOf
IsLowerAlpha(c) == c \in {"a", "b", "c", "d", "e", "f", "g", "h", "i", "j", "k", "l", "m",
                          "n", "o", "p", "q", "r", "s", "t", "u", "v", "w", "x", "y", "z"}
IsDigit(c) == c \in {"0", "1", "2", "3", "4", "5", "6", "7", "8", "9"}
\* Python \w: letters, digits, underscore
IsWordChar(c) == IsUpper(c) \/ IsLowerAlpha(c) \/ IsDigit(c) \/ c = "_"
\* Python \s
IsSpace(c) == c = SPACE
\* str.lower() on one character
ToLower(c) == IF IsUpper(c) THEN LowerOf[c] ELSE c

\* SQL NULL / Python None for a text value
Null == <<"<null>">>

(***************************************************************************)
(* String helpers.                                                         *)
(***************************************************************************)
Lower(s) == [i \in 1..Len(s) |-> ToLower(s[i])]

RECURSIVE LStrip(_)
LStrip(s) == IF s # <<>> /\ IsSpace(Head(s)) THEN LStrip(Tail(s)) ELSE s

RECURSIVE RStrip(_)
RStrip(s) == IF s # <<>> /\ IsSpace(s[Len(s)])
             THEN RStrip(SubSeq(s, 1, Len(s) - 1)) ELSE s

\* str.strip()
Strip(s) == RStrip(LStrip(s))

StartsWith(s, p) == Len(s) >= Len(p) /\ SubSeq(s, 1, Len(p)) = p

Drop(s, n) == SubSeq(s, n + 1, Len(s))

\* str.split(): the maximal runs of non-whitespace characters
RECURSIVE SplitWs(_, _, _)
SplitWs(s, cur, acc) ==
    IF s = <<>> THEN (IF cur = <<>> THEN acc ELSE Append(acc, cur))
    ELSE IF IsSpace(Head(s))
         THEN SplitWs(Tail(s), <<>>, IF cur = <<>> THEN acc ELSE Append(acc, cur))
         ELSE SplitWs(Tail(s), Append(cur, Head(s)), acc)
Split(s) == SplitWs(s, <<>>, <<>>)

\* ' '.join(words)
RECURSIVE Join(_)
Join(ws) == IF ws = <<>> THEN <<>>
            ELSE IF Len(ws) = 1 THEN ws[1]
            ELSE ws[1] \o <<SPACE>> \o Join(Tail(ws))

\* str.replace(' ', '')
RemoveSpaces(s) == SelectSeq(s, LAMBDA c : c # SPACE)

(***************************************************************************)
(* _normalize_name                                                         *)
(***************************************************************************)
\* the alternatives of the regex ^(a|an|the|le|la|l')\s+ , in its order
Articles == << <<"a">>, <<"a", "n">>, <<"t", "h", "e">>, <<"l", "e">>,
               <<"l", "a">>, <<"l", "'">> >>

\* re.sub(r"^(a|an|the|le|la|l')\s+", '', name): the first alternative that
\* is followed by at least one whitespace character is removed with the
\* whole run of whitespace after it
ArticleHits(s) ==
    {i \in 1..Len(Articles) :
        /\ StartsWith(s, Articles[i])
        /\ Len(s) > Len(Articles[i])
        /\ IsSpace(s[Len(Articles[i]) + 1])}

First(hits) == CHOOSE k \in hits : \A j \in hits : k <= j

StripArticle(s) ==
    IF ArticleHits(s) = {} THEN s
    ELSE LStrip(Drop(s, Len(Articles[First(ArticleHits(s))])))

\* re.sub(r'[^\w\s]', ' ', name)
PunctToSpace(s) ==
    [i \in 1..Len(s) |-> IF IsWordChar(s[i]) \/ IsSpace(s[i]) THEN s[i] ELSE SPACE]

\* re.sub(r'\s+', ' ', name).strip()
CollapseWs(s) == Join(Split(s))

NormalizeName(name) ==
    IF name = <<>> \/ name = Null THEN <<>>
    ELSE CollapseWs(PunctToSpace(StripArticle(Strip(Lower(name)))))

(***************************************************************************)
(* difflib.SequenceMatcher(None, a, b).ratio(), no junk, autojunk idle     *)
(* below 200 elements.  A score is a rational <<num, den>>; NoScore is     *)
(* Python's None.                                                          *)
(***************************************************************************)
NoScore == <<-1, 1>>

RatGE(r, t) == r[1] * t[2] >= t[1] * r[2]
RatGT(r, t) == r[1] * t[2] > t[1] * r[2]
RatAdd(r, t) == <<r[1] * t[2] + t[1] * r[2], r[2] * t[2]>>

\* length of the common run a[i..], b[j..] inside a[..ahi], b[..bhi]
RECURSIVE RunLen(_, _, _, _, _, _)
RunLen(a, b, i, j, ahi, bhi) ==
    IF i > ahi \/ j > bhi \/ a[i] # b[j] THEN 0
    ELSE 1 + RunLen(a, b, i + 1, j + 1, ahi, bhi)

\* a block <<i, j, size>> is preferred to another one: longer, or as long
\* and further left in a, then in b
BlockBefore(p, o) ==
    \/ p[3] > o[3]
    \/ p[3] = o[3] /\ (p[1] < o[1] \/ (p[1] = o[1] /\ p[2] <= o[2]))

\* find_longest_match: the longest block, the leftmost in a, then in b
LongestMatch(a, b, alo, ahi, blo, bhi) ==
    CHOOSE m \in {<<i, j, RunLen(a, b, i, j, ahi, bhi)>> : i \in alo..ahi, j \in blo..bhi} :
        \A o \in {<<i, j, RunLen(a, b, i, j, ahi, bhi)>> : i \in alo..ahi, j \in blo..bhi} :
            BlockBefore(m, o)

\* the sum of the sizes of get_matching_blocks(): the longest block, then
\* the blocks to its left and to its right
RECURSIVE MatchCount(_, _, _, _, _, _)
RECURSIVE AroundBlock(_, _, _, _, _, _, _)
AroundBlock(a, b, alo, ahi, blo, bhi, m) ==
    IF m[3] = 0 THEN 0
    ELSE m[3] + MatchCount(a, b, alo, m[1] - 1, blo, m[2] - 1)
              + MatchCount(a, b, m[1] + m[3], ahi, m[2] + m[3], bhi)

MatchCount(a, b, alo, ahi, blo, bhi) ==
    IF alo > ahi \/ blo > bhi THEN 0
    ELSE AroundBlock(a, b, alo, ahi, blo, bhi, LongestMatch(a, b, alo, ahi, blo, bhi))

\* ratio() = 2.0 * M / T
Ratio(a, b) == <<2 * MatchCount(a, b, 1, Len(a), 1, Len(b)), Len(a) + Len(b)>>

\* return ratio if ratio >= threshold else None
AtLeast(ratio, threshold) == IF RatGE(ratio, threshold) THEN ratio ELSE NoScore

\* _fuzzy_match_score(query, target, threshold)
FuzzyMatchScore(query, target, threshold) ==
    IF query = <<>> \/ target = <<>> THEN NoScore
    ELSE AtLeast(Ratio(query, target), threshold)

\* the greater of two scores, None below every score
Greater(x, y) ==
    IF x = NoScore THEN y
    ELSE IF y = NoScore \/ RatGE(x, y) THEN x
    ELSE y

\* max() over the scores that are not None; None when there is none
RECURSIVE MaxScore(_)
MaxScore(scores) ==
    IF scores = <<>> THEN NoScore
    ELSE Greater(Head(scores), MaxScore(Tail(scores)))

WordThreshold == <<1, 2>>
CharThreshold == <<6, 10>>

\* the best score of one query word over the target words (threshold 0.5)
BestWordScore(qword, target_words) ==
    MaxScore([i \in 1..Len(target_words) |->
                 FuzzyMatchScore(qword, target_words[i], WordThreshold)])

RECURSIVE SumScores(_)
SumScores(scores) ==
    IF Len(scores) = 1 THEN scores[1]
    ELSE RatAdd(Head(scores), SumScores(Tail(scores)))

\* sum(scores) / len(scores), None as soon as one query word has no match
MeanScore(scores) ==
    IF \E i \in 1..Len(scores) : scores[i] = NoScore THEN NoScore
    ELSE <<SumScores(scores)[1], SumScores(scores)[2] * Len(scores)>>

\* the best score of every query word
WordScores(query_words, target_words) ==
    [i \in 1..Len(query_words) |-> BestWordScore(query_words[i], target_words)]

\* _fuzzy_match_words(query_words, target, threshold): the mean of the best
\* per-word scores; the threshold parameter is not read by the code
FuzzyMatchWords(query_words, target, threshold) ==
    IF query_words = <<>> \/ target = <<>> THEN NoScore
    ELSE MeanScore(WordScores(query_words, Split(target)))

\* q hundredths and a remainder rem over den, rounded, ties to even
RoundHalfEven(q, rem, den) ==
    IF 2 * rem > den THEN q + 1
    ELSE IF 2 * rem = den /\ q % 2 = 1 THEN q + 1
    ELSE q

\* round(x, 2) in hundredths
Round2(r) == RoundHalfEven((100 * r[1]) \div r[2], (100 * r[1]) % r[2], r[2])

\* Strategy C: a single-word query against every word of the name
SingleWordBest(query_words, target_words) ==
    IF Len(query_words) = 1
    THEN MaxScore([i \in 1..Len(target_words) |->
             FuzzyMatchScore(query_words[1], target_words[i], CharThreshold)])
    ELSE NoScore

\* strategy A alone: the query against the whole name, spaces removed
WholeNameOnly(normalized_query, normalized_name) ==
    FuzzyMatchScore(RemoveSpaces(normalized_query), RemoveSpaces(normalized_name),
                    CharThreshold)

\* strategies A, B and C on the normalised query and name: the best of the
\* scores that qualified
BestOfStrategies(normalized_query, normalized_name) ==
    MaxScore(<< FuzzyMatchScore(RemoveSpaces(normalized_query),
                                RemoveSpaces(normalized_name), CharThreshold),
                FuzzyMatchWords(Split(normalized_query), normalized_name, CharThreshold),
                SingleWordBest(Split(normalized_query), Split(normalized_name)) >>)

\* Stage 3's score of one candidate name for a query
BestScore(query, name) == BestOfStrategies(NormalizeName(query), NormalizeName(name))

(***************************************************************************)
(* The FTS5 table search_idx, tokenize = 'porter unicode61'.               *)
(***************************************************************************)
IsTokenChar(c) == IsUpper(c) \/ IsLowerAlpha(c) \/ IsDigit(c)

\* unicode61: the maximal runs of letters and digits, case folded
RECURSIVE SplitTokens(_, _, _)
SplitTokens(s, cur, acc) ==
    IF s = <<>> THEN (IF cur = <<>> THEN acc ELSE Append(acc, cur))
    ELSE IF IsTokenChar(Head(s))
         THEN SplitTokens(Tail(s), Append(cur, ToLower(Head(s))), acc)
         ELSE SplitTokens(Tail(s), <<>>, IF cur = <<>> THEN acc ELSE Append(acc, cur))

EndsWith(w, suffix) ==
    Len(w) >= Len(suffix) /\ SubSeq(w, Len(w) - Len(suffix) + 1, Len(w)) = suffix

\* porter: tokens of 3 characters and more are stemmed.  Step 1a of the
\* stemmer (plural endings) is modelled; steps 1b to 5 leave the words of
\* the model's names, contexts and queries as they are.
PorterStem(w) ==
    IF Len(w) < 3 THEN w
    ELSE IF EndsWith(w, <<"e", "s">>)
         THEN IF (Len(w) > 4 /\ EndsWith(w, <<"s", "s", "e", "s">>))
                 \/ (Len(w) > 3 /\ EndsWith(w, <<"i", "e", "s">>))
              THEN SubSeq(w, 1, Len(w) - 2)
              ELSE SubSeq(w, 1, Len(w) - 1)
         ELSE IF EndsWith(w, <<"s">>) /\ ~EndsWith(w, <<"s", "s">>)
              THEN SubSeq(w, 1, Len(w) - 1)
              ELSE w

Stemmed(raw) == [i \in 1..Len(raw) |-> PorterStem(raw[i])]

\* the tokens the index stores for a column value, and uses for a query string
Tokens(text) ==
    IF text = Null THEN <<>> ELSE Stemmed(SplitTokens(text, <<>>, <<>>))

\* A phrase of an FTS5 query: its tokens, the last one a prefix or not
Phrase(tokens, prefix) == [tokens |-> tokens, prefix |-> prefix]

TokenMatches(tok, qtok, prefix) ==
    IF prefix THEN StartsWith(tok, qtok) ELSE tok = qtok

\* the positions of a column's token list at which the phrase occurs
PhraseHits(col, ph) ==
    {i \in 1..(Len(col) - Len(ph.tokens) + 1) :
        \A k \in 1..Len(ph.tokens) :
            TokenMatches(col[i + k - 1], ph.tokens[k], ph.prefix /\ k = Len(ph.tokens))}

\* the number of occurrences of a phrase in a row (columns name, context)
PhraseCount(row, ph) ==
    Cardinality(PhraseHits(Tokens(row.name), ph))
        + Cardinality(PhraseHits(Tokens(row.context), ph))

\* An FTS5 query is [op |-> "AND" | "OR", phrases |-> sequence of phrases]
RowMatches(row, fq) ==
    IF fq.op = "AND"
    THEN \A i \in 1..Len(fq.phrases) : PhraseCount(row, fq.phrases[i]) > 0
    ELSE \E i \in 1..Len(fq.phrases) : PhraseCount(row, fq.phrases[i]) > 0

\* A query string with a character that is no bareword character and no
\* whitespace is refused by FTS5 (sqlite3.OperationalError: syntax error,
\* or no such column)
IsBarewordText(q) == \A i \in 1..Len(q) : IsWordChar(q[i]) \/ IsSpace(q[i])

\* every word required, the last one as a prefix
AllOf(ws) ==
    [op |-> "AND",
     phrases |-> [i \in 1..Len(ws) |-> Phrase(Tokens(ws[i]), i = Len(ws))]]

\* Stage 1: MATCH '<query>*' -- the words of the raw query, all required,
\* the last one as a prefix
Stage1Query(query) == AllOf(Split(query))

\* any of the words, or the phrase
AnyOf(query_words, query) ==
    [op |-> "OR",
     phrases |-> [i \in 1..Len(query_words) |-> Phrase(Tokens(query_words[i]), FALSE)]
                 \o << Phrase(Tokens(query), FALSE) >>]

\* Stage 2: MATCH '(w1 OR w2 ...) OR "<query>*"' -- any normalised query
\* word, or the raw query as a phrase (the star inside the quotes is
\* dropped by the tokenizer)
Stage2Query(query) == AnyOf(Split(NormalizeName(query)), query)

\* ORDER BY rank: rank is -bm25() with k1 = 1.2 and b = 0.75,
\*   bm25 = SUM over the phrases of idf * tf * (k1 + 1)
\*                                       / (tf + k1 * (1 - b + b * len / avglen))
\* with idf = ln((N - n + 0.5) / (n + 0.5)) for a phrase found in n of the N
\* rows, and 0.000001 where that is not positive.  IdfMilli[N][n] is 1000
\* times that logarithm, 0 for a clamped one; the terms of the clamped
\* phrases only order rows whose other terms are equal.  Rows that tie stay
\* in rowid order.  idx is the table in rowid order.
IdfMilli == << <<0>>,
              <<0, 0>>,
              <<511, 0, 0>>,
              <<847, 0, 0, 0>>,
              <<1099, 336, 0, 0, 0>>,
              <<1299, 588, 0, 0, 0, 0>>,
              <<1466, 788, 251, 0, 0, 0, 0>> >>

RowLength(row) == Len(Tokens(row.name)) + Len(Tokens(row.context))

RECURSIVE TotalLength(_)
TotalLength(idx) == IF idx = <<>> THEN 0
                    ELSE RowLength(Head(idx)) + TotalLength(Tail(idx))

\* 1000 * tf * (k1 + 1) / (tf + k1 * (1 - b + b * len / avglen)), for a
\* row of len tokens in a table of rows rows and tot tokens
TermWeight(tf, tot, len, rows) ==
    (22000 * tf * tot) \div (10 * tf * tot + 3 * tot + 9 * len * rows)

\* the rows of the table that hold the phrase
RowsWith(idx, ph) == {j \in 1..Len(idx) : PhraseCount(idx[j], ph) > 0}

PhraseIdf(idx, ph) ==
    IF RowsWith(idx, ph) = {} THEN 0
    ELSE IdfMilli[Len(idx)][Cardinality(RowsWith(idx, ph))]

\* what one phrase adds to the sum, and to the sum of the clamped phrases
PhraseTerm(tf, idf, weight) ==
    IF tf = 0 THEN <<0, 0>>
    ELSE IF idf = 0 THEN <<0, weight>>
    ELSE <<idf * weight, 0>>

PairAdd(x, y) == <<x[1] + y[1], x[2] + y[2]>>

RECURSIVE Bm25Sum(_, _, _, _)
Bm25Sum(idx, fq, i, k) ==
    IF k > Len(fq.phrases) THEN <<0, 0>>
    ELSE PairAdd(PhraseTerm(PhraseCount(idx[i], fq.phrases[k]),
                            PhraseIdf(idx, fq.phrases[k]),
                            TermWeight(PhraseCount(idx[i], fq.phrases[k]),
                                       TotalLength(idx), RowLength(idx[i]), Len(idx))),
                 Bm25Sum(idx, fq, i, k + 1))

Bm25(idx, fq, i) == Bm25Sum(idx, fq, i, 1)

\* the row of score si at rowid position i comes before the one of sj at j
ScoreBefore(si, sj, i, j) ==
    \/ si[1] > sj[1]
    \/ si[1] = sj[1] /\ si[2] > sj[2]
    \/ si = sj /\ i < j

RankBefore(idx, fq, i, j) == ScoreBefore(Bm25(idx, fq, i), Bm25(idx, fq, j), i, j)

\* the rows at the positions left, in rank order
RECURSIVE OrderBy(_, _, _)
RECURSIVE FirstThen(_, _, _, _)
FirstThen(idx, fq, left, first) ==
    <<idx[first]>> \o OrderBy(idx, fq, left \ {first})

OrderBy(idx, fq, left) ==
    IF left = {} THEN <<>>
    ELSE FirstThen(idx, fq, left,
                   CHOOSE i \in left : \A j \in left \ {i} : RankBefore(idx, fq, i, j))

Take(s, n) == SubSeq(s, 1, IF Len(s) < n THEN Len(s) ELSE n)

\* SELECT ... WHERE search_idx MATCH fq ORDER BY rank LIMIT n
MatchSelect(idx, fq, n) ==
    Take(OrderBy(idx, fq, {i \in 1..Len(idx) : RowMatches(idx[i], fq)}), n)

(***************************************************************************)
(* The database: DB_SCHEMA.  A database value db holds                     *)
(*   games, platforms : sets of rows (the indexed columns, the format      *)
(*                      flags of a platform)                               *)
(*   links            : the rows of game_platforms                         *)
(*   idx              : the rows of search_idx, in rowid order             *)
(*   gameSeq, linkSeq : the AUTOINCREMENT counters                         *)
(***************************************************************************)
EmptyDb == [games |-> {}, platforms |-> {}, links |-> {}, idx |-> <<>>,
            gameSeq |-> 0, linkSeq |-> 0]

\* dict.get(key) on a request body; a missing key is None
Get(data, key) == IF key \in DOMAIN data THEN data[key] ELSE Null

\* Python truthiness of a text value
Truthy(v) == v # Null /\ v # <<>>

\* SQL a || b and IFNULL(a, '')
Concat(a, b) == IF a = Null \/ b = Null THEN Null ELSE a \o b
IfNull(a) == IF a = Null THEN <<>> ELSE a

\* the context expression of the games triggers
GameContext(new) ==
    Concat(Concat(Concat(Concat(Concat(Concat(new.description, <<SPACE>>),
        IfNull(new.genre)), <<SPACE>>), IfNull(new.developer)), <<SPACE>>),
        IfNull(new.publisher))

\* the context expression of the platforms triggers
PlatformContext(new) ==
    Concat(Concat(new.description, <<SPACE>>), IfNull(new.manufacturer))

IdxRow(row_id, item_type, name, context) ==
    [row_id |-> row_id, item_type |-> item_type, name |-> name, context |-> context]

IsRowOf(row, item_type, id) == row.item_type = item_type /\ row.row_id = id

\* TRIGGER games_after_insert
GamesAfterInsert(idx, new) ==
    Append(idx, IdxRow(new.id, "game", new.name, GameContext(new)))

\* games_after_delete with its DELETE left out
KeptAfterDelete(idx, old) == idx

\* TRIGGER games_after_delete
GamesAfterDelete(idx, old) ==
    SelectSeq(idx, LAMBDA row : ~IsRowOf(row, "game", old.id))

\* games_after_update setting the name only
RenamedAfterUpdate(idx, new) ==
    [i \in 1..Len(idx) |->
        IF IsRowOf(idx[i], "game", new.id)
        THEN [idx[i] EXCEPT !.name = new.name]
        ELSE idx[i]]

\* TRIGGER games_after_update
GamesAfterUpdate(idx, new) ==
    [i \in 1..Len(idx) |->
        IF IsRowOf(idx[i], "game", new.id)
        THEN [idx[i] EXCEPT !.name = new.name, !.context = GameContext(new)]
        ELSE idx[i]]

\* TRIGGER platforms_after_insert
PlatformsAfterInsert(idx, new) ==
    Append(idx, IdxRow(new.id, "platform", new.name, PlatformContext(new)))

\* TRIGGER platforms_after_delete
PlatformsAfterDelete(idx, old) ==
    SelectSeq(idx, LAMBDA row : ~IsRowOf(row, "platform", old.id))

\* TRIGGER platforms_after_update
PlatformsAfterUpdate(idx, new) ==
    [i \in 1..Len(idx) |->
        IF IsRowOf(idx[i], "platform", new.id)
        THEN [idx[i] EXCEPT !.name = new.name, !.context = PlatformContext(new)]
        ELSE idx[i]]

\* a row trigger fired for each row of a statement
RECURSIVE ForEachRow(_, _, _)
ForEachRow(Trigger(_, _), idx, rows) ==
    IF rows = {} THEN idx
    ELSE LET r == CHOOSE x \in rows : TRUE
         IN ForEachRow(Trigger, Trigger(idx, r), rows \ {r})

GameColumns == {"name", "description", "genre", "developer", "publisher"}
PlatformColumns == {"name", "description", "manufacturer",
                    "supports_digital", "supports_physical"}

\* INSERT INTO games (<the keys of data>) VALUES (...), with its trigger
InsertGame(db, data) ==
    LET new == [c \in GameColumns |-> Get(data, c)] @@ [id |-> db.gameSeq + 1]
    IN [db EXCEPT !.games = @ \cup {new},
                  !.gameSeq = @ + 1,
                  !.idx = GamesAfterInsert(@, new)]

\* UPDATE games SET <the keys of data> WHERE id IN ids, with its trigger
UpdateGames(db, ids, data) ==
    LET Upd(g) == [c \in DOMAIN g |-> IF c \in DOMAIN data THEN data[c] ELSE g[c]]
        hit == {g \in db.games : g.id \in ids}
        new == {Upd(g) : g \in hit}
    IN [db EXCEPT !.games = (@ \ hit) \cup new,
                  !.idx = ForEachRow(GamesAfterUpdate, @, new)]

\* DELETE FROM games WHERE id IN ids, with its trigger; the links of the
\* games go with them when the connection has foreign_keys = ON
\* the games are deleted and their links are left behind
DeleteGamesOnly(db, ids, foreign_keys) ==
    LET hit == {g \in db.games : g.id \in ids}
    IN [db EXCEPT !.games = @ \ hit,
                  !.idx = ForEachRow(GamesAfterDelete, @, hit)]

DeleteGames(db, ids, foreign_keys) ==
    LET hit == {g \in db.games : g.id \in ids}
    IN [db EXCEPT !.games = @ \ hit,
                  !.links = IF foreign_keys
                            THEN {l \in @ : l.game_id \notin ids} ELSE @,
                  !.idx = ForEachRow(GamesAfterDelete, @, hit)]

\* a boolean column of a request body; a missing key is falsy
Flag(data, key) == key \in DOMAIN data /\ data[key]

\* INSERT INTO platforms (<the keys of data>) VALUES (...), with its trigger;
\* supports_digital DEFAULT 1, supports_physical DEFAULT 0
InsertPlatform(db, data) ==
    LET new == [id |-> data.id,
                name |-> Get(data, "name"),
                description |-> Get(data, "description"),
                manufacturer |-> Get(data, "manufacturer"),
                supports_digital |-> IF "supports_digital" \in DOMAIN data
                                     THEN data.supports_digital ELSE TRUE,
                supports_physical |-> Flag(data, "supports_physical")]
    IN [db EXCEPT !.platforms = @ \cup {new},
                  !.idx = PlatformsAfterInsert(@, new)]

\* id TEXT PRIMARY KEY, name TEXT NOT NULL UNIQUE
PlatformConflict(db, data) ==
    \E p \in db.platforms : p.id = data.id \/ p.name = Get(data, "name")

\* UPDATE platforms SET <the keys of data> WHERE id = pid, with its trigger
UpdatePlatformRow(db, pid, data) ==
    LET Upd(q) == [c \in DOMAIN q |-> IF c \in DOMAIN data THEN data[c] ELSE q[c]]
        hit == {q \in db.platforms : q.id = pid}
        new == {Upd(q) : q \in hit}
    IN [db EXCEPT !.platforms = (@ \ hit) \cup new,
                  !.idx = ForEachRow(PlatformsAfterUpdate, @, new)]

\* DELETE FROM platforms WHERE id IN ids, with its trigger and the cascade
DeletePlatforms(db, ids, foreign_keys) ==
    LET hit == {q \in db.platforms : q.id \in ids}
    IN [db EXCEPT !.platforms = @ \ hit,
                  !.links = IF foreign_keys
                            THEN {l \in @ : l.platform_id \notin ids} ELSE @,
                  !.idx = ForEachRow(PlatformsAfterDelete, @, hit)]

\* INSERT INTO game_platforms: UNIQUE(game_id, platform_id, is_digital) and,
\* with foreign_keys = ON, both references must exist
LinkConflict(db, game_id, platform_id, is_digital, foreign_keys) ==
    \/ \E l \in db.links : /\ l.game_id = game_id
                           /\ l.platform_id = platform_id
                           /\ l.is_digital = is_digital
    \/ foreign_keys /\ ~\E g \in db.games : g.id = game_id
    \/ foreign_keys /\ ~\E q \in db.platforms : q.id = platform_id

InsertLink(db, game_id, platform_id, is_digital) ==
    [db EXCEPT !.links = @ \cup {[id |-> db.linkSeq + 1, game_id |-> game_id,
                                  platform_id |-> platform_id,
                                  is_digital |-> is_digital]},
               !.linkSeq = @ + 1]

(***************************************************************************)
(* The handlers of database_handler.handle.  Each runs on a connection of  *)
(* its own (_get_conn), with foreign_keys = ON (_ensure_schema), and       *)
(* yields its HTTP status, the database as its transaction leaves it and   *)
(* whether it committed; a connection closed without a commit rolls back.  *)
(* idxFails: the index statement of the trigger fails, which undoes the    *)
(* whole catalog statement and raises from cur.execute.                    *)
(***************************************************************************)
Reply(status, tx, commit) == [status |-> status, tx |-> tx, commit |-> commit]

\* an exception leaves the handler: main._serve_plugin answers 500 and
\* handle's finally closes the connection
Raised(db) == Reply(500, db, FALSE)

\* _create_game with the index kept by a statement of its own, after the
\* INSERT, and a commit whatever that statement did
CreateGameThenIndex(db, data, idxFails) ==
    IF ~Truthy(Get(data, "name")) THEN Reply(400, db, FALSE)
    ELSE IF idxFails
    THEN Reply(500, [InsertGame(db, data) EXCEPT !.idx = db.idx], TRUE)
    ELSE Reply(200, InsertGame(db, data), TRUE)

\* _create_game
CreateGame(db, data, idxFails) ==
    IF ~Truthy(Get(data, "name")) THEN Reply(400, db, FALSE)
    ELSE IF idxFails THEN Raised(db)
    ELSE Reply(200, InsertGame(db, data), TRUE)

\* _update_game
UpdateGame(db, gid, data, idxFails) ==
    IF ~\E g \in db.games : g.id = gid THEN Reply(404, db, FALSE)
    ELSE IF DOMAIN data \cap GameColumns = {} THEN Reply(400, db, FALSE)
    ELSE IF idxFails THEN Raised(db)
    ELSE Reply(200, UpdateGames(db, {gid}, data), TRUE)

\* _delete_game
DeleteGame(db, gid, idxFails) ==
    IF ~\E g \in db.games : g.id = gid THEN Reply(404, db, FALSE)
    ELSE IF idxFails THEN Raised(db)
    ELSE Reply(200, DeleteGames(db, {gid}, TRUE), TRUE)

\* the id _create_platform derives from the name:
\* name.lower().replace(' ', '_').replace('-', '_')
PlatformId(name) ==
    [i \in 1..Len(name) |->
        IF name[i] = SPACE \/ name[i] = "-" THEN "_" ELSE ToLower(name[i])]

\* _create_platform
CreatePlatform(db, data, idxFails) ==
    IF ~Truthy(Get(data, "name")) THEN Reply(400, db, FALSE)
    ELSE IF ~Flag(data, "supports_digital") /\ ~Flag(data, "supports_physical")
    THEN Reply(400, db, FALSE)
    ELSE LET row == data @@ [id |-> PlatformId(data.name)]
         IN IF PlatformConflict(db, row) THEN Reply(400, db, FALSE)
            ELSE IF idxFails THEN Raised(db)
            ELSE Reply(200, InsertPlatform(db, row), TRUE)

\* _update_platform; a name another platform has breaks UNIQUE and raises
UpdatePlatform(db, pid, data, idxFails) ==
    IF ~\E q \in db.platforms : q.id = pid THEN Reply(404, db, FALSE)
    ELSE IF DOMAIN data \cap PlatformColumns = {} THEN Reply(400, db, FALSE)
    ELSE IF "name" \in DOMAIN data
            /\ \E q \in db.platforms : q.id # pid /\ q.name = data.name
    THEN Raised(db)
    ELSE IF idxFails THEN Raised(db)
    ELSE Reply(200, UpdatePlatformRow(db, pid, data), TRUE)

\* _get_orphaned_games_on_platform_deletion
OrphanedGames(db, pid) ==
    {l.game_id : l \in {x \in db.links : x.platform_id = pid}}
        \ {l.game_id : l \in {x \in db.links : x.platform_id # pid}}

\* _delete_platform without the look for orphaned games
DeletePlatformUnasked(db, pid, force, idxFails) ==
    IF ~\E q \in db.platforms : q.id = pid THEN Reply(404, db, FALSE)
    ELSE IF idxFails THEN Raised(db)
    ELSE Reply(200, DeletePlatforms(db, {pid}, TRUE), TRUE)

\* _delete_platform
DeletePlatform(db, pid, force, idxFails) ==
    IF ~\E q \in db.platforms : q.id = pid THEN Reply(404, db, FALSE)
    ELSE IF ~force /\ OrphanedGames(db, pid) # {} THEN Reply(409, db, FALSE)
    ELSE IF idxFails THEN Raised(db)
    ELSE Reply(200, DeletePlatforms(db, {pid}, TRUE), TRUE)

(***************************************************************************)
(* _autocomplete: the three stages.  A score is kept in hundredths.        *)
(***************************************************************************)
Suggestion(row, match_type, score) ==
    [id |-> row.row_id, type |-> row.item_type, name |-> row.name,
     context |-> row.context, match_type |-> match_type, score |-> score]

\* suggestion_id = f"{item_type}-{row_id}"
SuggestionId(row) == <<row.item_type, row.row_id>>

SearchState(suggestions, seen_ids) ==
    [suggestions |-> suggestions, seen_ids |-> seen_ids]

\* the loop over stage1_rows: a row whose id was seen is skipped
RECURSIVE AddStage1(_, _)
AddStage1(st, rows) ==
    IF rows = <<>> THEN st
    ELSE IF SuggestionId(Head(rows)) \in st.seen_ids THEN AddStage1(st, Tail(rows))
    ELSE AddStage1(SearchState(
             Append(st.suggestions, Suggestion(Head(rows), "fts_exact_prefix", 100)),
             st.seen_ids \cup {SuggestionId(Head(rows))}), Tail(rows))

\* Stage 1 on the index as the connection reads it
Stage1(idx, query, limit) ==
    AddStage1(SearchState(<<>>, {}), MatchSelect(idx, Stage1Query(query), limit * 2))

\* the loop over stage2_rows without the seen_ids test
RECURSIVE AddStage2Unseen(_, _)
AddStage2Unseen(st, rows) ==
    IF rows = <<>> THEN st
    ELSE AddStage2Unseen(SearchState(
             Append(st.suggestions, Suggestion(Head(rows), "fts_word_fuzzy", 80)),
             st.seen_ids \cup {SuggestionId(Head(rows))}), Tail(rows))

\* the Stage 2 hits scored like the Stage 1 hits
RECURSIVE AddStage2FullScore(_, _)
AddStage2FullScore(st, rows) ==
    IF rows = <<>> THEN st
    ELSE IF SuggestionId(Head(rows)) \in st.seen_ids
    THEN AddStage2FullScore(st, Tail(rows))
    ELSE AddStage2FullScore(SearchState(
             Append(st.suggestions, Suggestion(Head(rows), "fts_word_fuzzy", 100)),
             st.seen_ids \cup {SuggestionId(Head(rows))}), Tail(rows))

\* the loop over stage2_rows
RECURSIVE AddStage2(_, _)
AddStage2(st, rows) ==
    IF rows = <<>> THEN st
    ELSE IF SuggestionId(Head(rows)) \in st.seen_ids THEN AddStage2(st, Tail(rows))
    ELSE AddStage2(SearchState(
             Append(st.suggestions, Suggestion(Head(rows), "fts_word_fuzzy", 80)),
             st.seen_ids \cup {SuggestionId(Head(rows))}), Tail(rows))
Stage2(idx, query, limit, st) ==
    AddStage2(st, MatchSelect(idx, Stage2Query(query), limit * 3))

\* a candidate with its score, or nothing when no strategy qualified
Candidate(row, best_score) ==
    IF best_score = NoScore THEN <<>>
    ELSE <<Suggestion(row, "char_fuzzy", Round2(best_score))>>

\* the Stage 3 scan without the seen_ids test
RECURSIVE FuzzyCandidatesUnseen(_, _, _)
FuzzyCandidatesUnseen(rows, query, seen_ids) ==
    IF rows = <<>> THEN <<>>
    ELSE (IF Head(rows).item_type \notin {"game", "platform"} THEN <<>>
          ELSE Candidate(Head(rows), BestScore(query, Head(rows).name)))
         \o FuzzyCandidatesUnseen(Tail(rows), query, seen_ids)

\* SELECT ... FROM search_idx WHERE item_type IN ('game', 'platform'): the
\* table in rowid order; the rows already seen are skipped, a row with no
\* qualifying score is dropped
RECURSIVE FuzzyCandidates(_, _, _)
FuzzyCandidates(rows, query, seen_ids) ==
    IF rows = <<>> THEN <<>>
    ELSE (IF Head(rows).item_type \notin {"game", "platform"} THEN <<>>
          ELSE IF SuggestionId(Head(rows)) \in seen_ids THEN <<>>
          ELSE Candidate(Head(rows), BestScore(query, Head(rows).name)))
         \o FuzzyCandidates(Tail(rows), query, seen_ids)

\* the first of the candidates, whatever its score
FirstIndex(cands) == 1

\* the first of the candidates with the highest score
TopIndex(cands) ==
    CHOOSE i \in 1..Len(cands) :
        \A j \in 1..Len(cands) :
            \/ cands[i].score > cands[j].score
            \/ cands[i].score = cands[j].score /\ i <= j

\* list.sort(key=score, reverse=True): descending, equal scores keep their order
RECURSIVE SortByScore(_)
RECURSIVE TopThen(_, _)
TopThen(cands, top) ==
    <<cands[top]>> \o
    SortByScore(SubSeq(cands, 1, top - 1) \o SubSeq(cands, top + 1, Len(cands)))

SortByScore(cands) ==
    IF cands = <<>> THEN <<>> ELSE TopThen(cands, TopIndex(cands))

\* the candidates merged into the list by score
AddStage3ByScore(suggestions, cands, limit) ==
    SubSeq(SortByScore(suggestions \o cands), 1,
           IF Len(suggestions) + Len(cands) < limit
           THEN Len(suggestions) + Len(cands) ELSE limit)

\* candidates are appended while the list is shorter than limit
RECURSIVE AddStage3(_, _, _)
AddStage3(suggestions, cands, limit) ==
    IF cands = <<>> \/ Len(suggestions) >= limit THEN suggestions
    ELSE AddStage3(Append(suggestions, Head(cands)), Tail(cands), limit)

Stage3(idx, query, limit, st) ==
    SearchState(
        AddStage3(st.suggestions,
                  SortByScore(FuzzyCandidates(idx, query, st.seen_ids)), limit),
        st.seen_ids)

\* the return without the slice
NoTrim(suggestions, limit) == suggestions

\* return {'suggestions': suggestions[:limit]}
Trim(suggestions, limit) == Take(suggestions, limit)

\* if len(suggestions) < limit: the next stage runs
Escalate2(idx, query, limit, st) ==
    IF Len(st.suggestions) < limit THEN Stage2(idx, query, limit, st) ELSE st

Escalate3(idx, query, limit, st) ==
    IF Len(st.suggestions) < limit THEN Stage3(idx, query, limit, st) ELSE st

\* the three stages on one and the same index
Stages(idx, query, limit) ==
    Escalate3(idx, query, limit,
              Escalate2(idx, query, limit, Stage1(idx, query, limit)))

\* The whole pipeline on one index: what a search returns when no mutation
\* is committed while it runs
Pipeline(idx, q, limit) ==
    IF Strip(q) = <<>> THEN [status |-> 200, suggestions |-> <<>>]
    ELSE IF ~IsBarewordText(Strip(q)) THEN [status |-> 500, suggestions |-> <<>>]
    ELSE [status |-> 200,
          suggestions |-> Trim(Stages(idx, Strip(q), limit).suggestions, limit)]

(***************************************************************************)
(* The game-platform link handlers and _bulk_operations.                   *)
(***************************************************************************)
\* _create_game_platform
CreateGamePlatform(db, data) ==
    IF ~{"game_id", "platform_id", "is_digital"} \subseteq DOMAIN data
    THEN Reply(400, db, FALSE)
    ELSE IF ~\E g \in db.games : g.id = data.game_id THEN Reply(404, db, FALSE)
    ELSE IF ~\E q \in db.platforms : q.id = data.platform_id THEN Reply(404, db, FALSE)
    ELSE LET platform == CHOOSE q \in db.platforms : q.id = data.platform_id
         IN IF data.is_digital /\ ~platform.supports_digital THEN Reply(400, db, FALSE)
            ELSE IF ~data.is_digital /\ ~platform.supports_physical
            THEN Reply(400, db, FALSE)
            ELSE IF LinkConflict(db, data.game_id, data.platform_id, data.is_digital, TRUE)
            THEN Reply(400, db, FALSE)
            ELSE Reply(200, InsertLink(db, data.game_id, data.platform_id,
                                       data.is_digital), TRUE)

LinkColumns == {"game_id", "platform_id", "is_digital"}

\* _update_game_platform: the UPDATE runs unvalidated; a broken UNIQUE or
\* foreign key raises
UpdateGamePlatform(db, gp_id, data) ==
    IF ~\E l \in db.links : l.id = gp_id THEN Reply(404, db, FALSE)
    ELSE IF DOMAIN data \cap LinkColumns = {} THEN Reply(400, db, FALSE)
    ELSE LET old == CHOOSE l \in db.links : l.id = gp_id
             new == [c \in DOMAIN old |-> IF c \in DOMAIN data THEN data[c] ELSE old[c]]
             others == [db EXCEPT !.links = @ \ {old}]
         IN IF LinkConflict(others, new.game_id, new.platform_id, new.is_digital, TRUE)
            THEN Raised(db)
            ELSE Reply(200, [db EXCEPT !.links = (@ \ {old}) \cup {new}], TRUE)

\* _delete_game_platform
DeleteGamePlatform(db, gp_id) ==
    IF ~\E l \in db.links : l.id = gp_id THEN Reply(404, db, FALSE)
    ELSE Reply(200, [db EXCEPT !.links = {l \in @ : l.id # gp_id}], TRUE)

\* elements of a list
Range(s) == {s[i] : i \in 1..Len(s)}

\* the loop of assign_platform given up at the first IntegrityError
RECURSIVE AssignPlatformUntilError(_, _, _)
AssignPlatformUntilError(db, ids, platform_id) ==
    IF ids = <<>> THEN db
    ELSE IF LinkConflict(db, Head(ids), platform_id, TRUE, TRUE) THEN db
    ELSE AssignPlatformUntilError(InsertLink(db, Head(ids), platform_id, TRUE),
                                  Tail(ids), platform_id)

\* the loop of assign_platform: one digital link per game id, an
\* IntegrityError is passed over
RECURSIVE AssignPlatform(_, _, _)
AssignPlatform(db, ids, platform_id) ==
    IF ids = <<>> THEN db
    ELSE IF LinkConflict(db, Head(ids), platform_id, TRUE, TRUE)
    THEN AssignPlatform(db, Tail(ids), platform_id)
    ELSE AssignPlatform(InsertLink(db, Head(ids), platform_id, TRUE),
                        Tail(ids), platform_id)

\* _bulk_operations; an exception inside the try is answered with a
\* rollback and 500
BulkOperations(db, data, idxFails) ==
    LET action == data.action
        item_type == data.item_type
        ids == IF "ids" \in DOMAIN data THEN data.ids ELSE <<>>
        params == IF "params" \in DOMAIN data THEN data.params ELSE [c \in {} |-> Null]
        platform_id == Get(params, "platform_id")
    IN IF ~{"action", "item_type"} \subseteq DOMAIN data \/ ids = <<>>
       THEN Reply(400, db, FALSE)
       ELSE IF action = "delete" THEN
            IF item_type = "game"
            THEN IF idxFails /\ \E g \in db.games : g.id \in Range(ids) THEN Raised(db)
                 ELSE Reply(200, DeleteGames(db, Range(ids), TRUE), TRUE)
            ELSE IF item_type = "platform"
            THEN IF idxFails /\ \E q \in db.platforms : q.id \in Range(ids) THEN Raised(db)
                 ELSE Reply(200, DeletePlatforms(db, Range(ids), TRUE), TRUE)
            ELSE Reply(400, db, FALSE)
       ELSE IF action = "assign_platform" THEN
            IF item_type # "game" THEN Reply(400, db, FALSE)
            ELSE IF ~Truthy(platform_id) THEN Reply(400, db, FALSE)
            ELSE Reply(200, AssignPlatform(db, ids, platform_id), TRUE)
       ELSE IF action = "remove_platform" THEN
            IF item_type # "game" THEN Reply(400, db, FALSE)
            ELSE IF ~Truthy(platform_id) THEN Reply(400, db, FALSE)
            ELSE Reply(200, [db EXCEPT !.links =
                                {l \in @ : ~(l.platform_id = platform_id
                                             /\ l.game_id \in Range(ids))}], TRUE)
       ELSE IF action = "edit_fields" THEN
            IF item_type # "game" THEN Reply(400, db, FALSE)
            ELSE IF DOMAIN params \cap GameColumns = {} THEN Reply(400, db, FALSE)
            ELSE IF idxFails /\ \E g \in db.games : g.id \in Range(ids) THEN Raised(db)
            ELSE Reply(200, UpdateGames(db, Range(ids),
                                        [c \in DOMAIN params \cap GameColumns |-> params[c]]),
                       TRUE)
       ELSE Reply(400, db, FALSE)

(***************************************************************************)
(* seed_handler: POST /seed.  Its connection never runs _ensure_schema.    *)
(***************************************************************************)
SeedPlatformId ==
    <<"t","e","s","t","p","l","a","t","f","o","r","m">>
SeedPlatformName ==
    <<"T","e","s","t","P","l","a","t","f","o","r","m">>
SeedPlatformDescription ==
    <<"A"," ","m","y","s","t","e","r","i","o","u","s"," ","p","l","a","t","f",
      "o","r","m"," ","t","h","a","t"," ","e","x","i","s","t","s"," ","o","n",
      "l","y"," ","i","n"," ","t","h","e"," ","r","e","a","l","m"," ","o","f",
      " ","t","e","s","t","i","n","g","."," ","L","e","g","e","n","d"," ","h",
      "a","s"," ","i","t"," ","t","h","a","t"," ","i","t"," ","r","u","n","s",
      " ","o","n"," ","p","u","r","e"," ","i","m","a","g","i","n","a","t","i",
      "o","n"," ","a","n","d"," ","c","a","f","f","e","i","n","e",".">>
SeedGameName ==
    <<"T","e","s","t","G","a","m","e">>
SeedGameDescription ==
    <<"A"," ","l","e","g","e","n","d","a","r","y"," ","g","a","m","e"," ","t",
      "h","a","t"," ","e","x","i","s","t","s"," ","o","n","l","y"," ","i","n",
      " ","t","e","s","t"," ","d","a","t","a","b","a","s","e","s","."," ","R",
      "u","m","o","r"," ","h","a","s"," ","i","t"," ","t","h","a","t"," ","b",
      "e","a","t","i","n","g"," ","t","h","i","s"," ","g","a","m","e"," ","g",
      "r","a","n","t","s"," ","y","o","u"," ","t","h","e"," ","p","o","w","e",
      "r"," ","t","o"," ","d","e","b","u","g"," ","a","n","y"," ","c","o","d",
      "e","."," ","S","p","e","e","d","r","u","n","n","e","r","s"," ","r","e",
      "p","o","r","t"," ","c","o","m","p","l","e","t","i","o","n"," ","t","i",
      "m","e","s"," ","o","f"," ","0",".","0","0","1"," ","s","e","c","o","n",
      "d","s",".">>

\* _is_database_empty
IsDatabaseEmpty(db) == db.games = {} /\ db.platforms = {}

\* _seed_database: the platform, the game and its digital link, one commit
SeedDatabase(db) ==
    LET withPlatform == InsertPlatform(db,
            [id |-> SeedPlatformId, name |-> SeedPlatformName,
             supports_digital |-> TRUE, supports_physical |-> FALSE,
             description |-> SeedPlatformDescription])
        withGame == InsertGame(withPlatform,
            [name |-> SeedGameName, description |-> SeedGameDescription])
    IN InsertLink(withGame, withGame.gameSeq, SeedPlatformId, TRUE)

\* seed_handler.handle, POST seed
Seed(db) ==
    IF ~IsDatabaseEmpty(db) THEN Reply(400, db, FALSE)
    ELSE Reply(200, SeedDatabase(db), TRUE)

(***************************************************************************)
(* import_handler: POST /import.  The CSV rows arrive here as parsed: a    *)
(* row is [game |-> the mapped game fields, links |-> its platform links]. *)
(* The connection never runs _ensure_schema, so foreign_keys is off.  An   *)
(* import state st holds tx, the database as the connection sees it,       *)
(* commits, the databases it has committed so far, and cache, the          *)
(* platform_cache dict.                                                    *)
(***************************************************************************)
ImportState(tx, commits, cache) == [tx |-> tx, commits |-> commits, cache |-> cache]

\* conn.commit() in the middle of the import
CommitNow(st, tx) == ImportState(tx, Append(st.commits, tx), st.cache)

\* _ensure_platform_exists: a platform it inserts is committed there and
\* then, with all the connection has written up to that point
EnsurePlatformExists(st, platform_id, platform_name) ==
    IF \E q \in st.tx.platforms : q.id = platform_id THEN st
    ELSE IF \E q \in st.tx.platforms : q.name = platform_name THEN st
    ELSE CommitNow(st, InsertPlatform(st.tx,
                           [id |-> platform_id, name |-> platform_name,
                            supports_digital |-> TRUE, supports_physical |-> FALSE]))

\* the formats of a platform row as platform_cache keeps them
FoundEntry(q) ==
    [id |-> q.id, found |-> TRUE, supports_digital |-> q.supports_digital,
     supports_physical |-> q.supports_physical]

\* platform_cache[platform_id] = the row, or None
CacheEntry(db, platform_id) ==
    IF \E q \in db.platforms : q.id = platform_id
    THEN FoundEntry(CHOOSE q \in db.platforms : q.id = platform_id)
    ELSE [id |-> platform_id, found |-> FALSE,
          supports_digital |-> FALSE, supports_physical |-> FALSE]

Cached(st, platform_id) ==
    [st EXCEPT !.cache = @ \cup {CacheEntry(st.tx, platform_id)}]

\* if platform_id not in platform_cache: ensure the platform, cache its row
LookUp(st, link) ==
    IF \E e \in st.cache : e.id = link.platform_id THEN st
    ELSE Cached(EnsurePlatformExists(st, link.platform_id, link.platform_name),
                link.platform_id)

\* the link is passed over: no platform, a format the platform lacks, or
\* an IntegrityError
SkipLink(st, gid, link, platform) ==
    \/ ~platform.found
    \/ link.is_digital /\ ~platform.supports_digital
    \/ ~link.is_digital /\ ~platform.supports_physical
    \/ LinkConflict(st.tx, gid, link.platform_id, link.is_digital, FALSE)

LinkStep(st, gid, link) ==
    IF SkipLink(st, gid, link, CHOOSE e \in st.cache : e.id = link.platform_id)
    THEN st
    ELSE [st EXCEPT !.tx = InsertLink(@, gid, link.platform_id, link.is_digital)]

\* the loop over platform_links of _insert_game_and_links
RECURSIVE InsertLinks(_, _, _)
InsertLinks(st, gid, platform_links) ==
    IF platform_links = <<>> THEN st
    ELSE InsertLinks(LinkStep(LookUp(st, Head(platform_links)), gid,
                              Head(platform_links)),
                     gid, Tail(platform_links))

\* the columns of the import's INSERT INTO games that the index reads
ImportedGame(game_obj) ==
    [c \in DOMAIN game_obj \cap {"name", "description"} |-> game_obj[c]]

\* the game of that name with the lowest id, the row fetchone() returns
Lowest(same) == CHOOSE g \in same : \A h \in same : g.id <= h.id

\* on_duplicate = 'merge': the description is filled in if it is missing
MergeGame(st, existing, game_obj) ==
    IF ~Truthy(existing.description) /\ Truthy(Get(game_obj, "description"))
    THEN [st EXCEPT !.tx = UpdateGames(@, {existing.id},
                                       [description |-> game_obj.description])]
    ELSE st

CreateNew(st, tx, platform_links) ==
    InsertLinks([st EXCEPT !.tx = tx], tx.gameSeq, platform_links)

\* the games of the connection's view with that name
SameName(st, game_obj) == {g \in st.tx.games : g.name = Get(game_obj, "name")}

\* _insert_game_and_links
InsertGameAndLinks(st, game_obj, platform_links, on_duplicate) ==
    IF SameName(st, game_obj) # {} /\ on_duplicate = "skip"
    THEN InsertLinks(st, Lowest(SameName(st, game_obj)).id, platform_links)
    ELSE IF SameName(st, game_obj) # {} /\ on_duplicate = "merge"
    THEN InsertLinks(MergeGame(st, Lowest(SameName(st, game_obj)), game_obj),
                     Lowest(SameName(st, game_obj)).id, platform_links)
    ELSE CreateNew(st, InsertGame(st.tx, ImportedGame(game_obj)), platform_links)

\* the loop over data_rows: a row is dropped, merged at once, or staged
RECURSIVE ImportRows(_, _, _, _, _)
ImportRows(st, rows, existing_games_by_name, on_duplicate, staged) ==
    IF rows = <<>> THEN [st |-> st, staged |-> staged]
    ELSE IF ~Truthy(Get(Head(rows).game, "name"))
    THEN ImportRows(st, Tail(rows), existing_games_by_name, on_duplicate, staged)
    ELSE IF Head(rows).game.name \in existing_games_by_name /\ on_duplicate = "skip"
    THEN ImportRows(st, Tail(rows), existing_games_by_name, on_duplicate, staged)
    ELSE IF Head(rows).game.name \in existing_games_by_name /\ on_duplicate = "merge"
    THEN ImportRows(InsertGameAndLinks(st, Head(rows).game, Head(rows).links,
                                       on_duplicate),
                    Tail(rows), existing_games_by_name, on_duplicate, staged)
    ELSE ImportRows(st, Tail(rows), existing_games_by_name, on_duplicate,
                    Append(staged, Head(rows)))

\* cur.executemany('INSERT INTO games ...', games_to_insert)
RECURSIVE InsertStagedGames(_, _)
InsertStagedGames(tx, staged) ==
    IF staged = <<>> THEN tx
    ELSE InsertStagedGames(InsertGame(tx, ImportedGame(Head(staged).game)),
                           Tail(staged))

\* the staged links of one row: each goes through _insert_game_and_links
\* again, by the name of its game
RECURSIVE LinksOfRow(_, _, _)
LinksOfRow(st, name, links) ==
    IF links = <<>> THEN st
    ELSE LinksOfRow(InsertGameAndLinks(st, [name |-> name], <<Head(links)>>, "merge"),
                    name, Tail(links))

\* the loop over links_to_insert
RECURSIVE InsertStagedLinks(_, _)
InsertStagedLinks(st, staged) ==
    IF staged = <<>> THEN st
    ELSE InsertStagedLinks(LinksOfRow(st, Head(staged).game.name, Head(staged).links),
                           Tail(staged))

\* the batch: the staged games, then their links
Batch(st, staged) ==
    InsertStagedLinks([st EXCEPT !.tx = InsertStagedGames(@, staged)], staged)

\* the databases the connection has committed, and the one it commits last
Commits(st) == Append(st.commits, st.tx)

\* the names the pre-fetch finds
ExistingGamesByName(db, on_duplicate) ==
    IF on_duplicate \in {"skip", "merge"} THEN {g.name : g \in db.games} ELSE {}

BatchOf(looped) == Batch(looped.st, looped.staged)

\* import_handler.handle, POST import: the databases it commits, in order;
\* the last one is the commit at the end
Import(db, rows, on_duplicate) ==
    Commits(BatchOf(ImportRows(ImportState(db, <<>>, {}), rows,
                               ExistingGamesByName(db, on_duplicate),
                               on_duplicate, <<>>)))

(***************************************************************************)
(* The requests the clients send: texts, request bodies and queries.       *)
(***************************************************************************)
TxtEldenRing == <<"E","l","d","e","n"," ","R","i","n","g">>
TxtHollowKnight == <<"H","o","l","l","o","w"," ","K","n","i","g","h","t">>
TxtWitcher == <<"W","i","t","c","h","e","r">>
TxtIndie == <<"i","n","d","i","e">>
TxtRpg == <<"r","p","g">>
TxtSteam == <<"S","t","e","a","m">>
TxtValve == <<"V","a","l","v","e">>
TxtElden == <<"E","l","d","e","n">>
TxtHolow == <<"H","o","l","o","w">>
TxtTheWitcher == <<"T","h","e"," ","W","i","t","c","h","e","r">>
TxtEldenDashRing == <<"E","l","d","e","n","-","R","i","n","g">>
TxtBlank == <<" ">>
TxtEmpty == <<>>

\* POST /games bodies; the last one has no name
GameBodies ==
    { [name |-> TxtEldenRing],
      [name |-> TxtHollowKnight, description |-> TxtIndie],
      [name |-> TxtWitcher, genre |-> TxtRpg],
      [description |-> TxtIndie] }

\* PUT /games/<id> bodies
GameUpdates == { [name |-> TxtWitcher], [description |-> TxtIndie] }

\* POST /platforms bodies; the second one names no format
PlatformBodies ==
    { [name |-> TxtSteam, supports_digital |-> TRUE],
      [name |-> TxtSteam] }

\* PUT /platforms/<id> bodies
PlatformUpdates == { [manufacturer |-> TxtValve], [supports_digital |-> FALSE] }

\* the ids a request may name: the ones handed out so far and one beyond
GameIds(db) == 1..(db.gameSeq + 1)
LinkIds(db) == 1..(db.linkSeq + 1)
PlatformIds == {PlatformId(TxtSteam), SeedPlatformId}

\* PUT /game_platforms/<id> bodies
LinkUpdates(db) ==
    { [is_digital |-> b] : b \in BOOLEAN }
        \cup { [game_id |-> gid] : gid \in GameIds(db) }
        \cup { [platform_id |-> pid] : pid \in PlatformIds }

\* POST /bulk bodies
BulkBodies ==
    { [action |-> "delete", item_type |-> "game", ids |-> <<1>>],
      [action |-> "delete", item_type |-> "game", ids |-> <<1, 2>>],
      [action |-> "delete", item_type |-> "platform", ids |-> <<PlatformId(TxtSteam)>>],
      [action |-> "assign_platform", item_type |-> "game", ids |-> <<1, 2>>,
       params |-> [platform_id |-> PlatformId(TxtSteam)]],
      [action |-> "remove_platform", item_type |-> "game", ids |-> <<1>>,
       params |-> [platform_id |-> PlatformId(TxtSteam)]],
      [action |-> "edit_fields", item_type |-> "game", ids |-> <<1, 2>>,
       params |-> [description |-> TxtIndie]],
      [action |-> "edit_fields", item_type |-> "game", ids |-> <<>>,
       params |-> [description |-> TxtIndie]] }

\* the rows of an import
ImportRow(game, links) == [game |-> game, links |-> links]
SteamLink == [platform_id |-> PlatformId(TxtSteam), platform_name |-> TxtSteam,
              is_digital |-> TRUE]
ImportBodies ==
    { << ImportRow([name |-> TxtEldenRing], <<>>) >>,
      << ImportRow([name |-> TxtHollowKnight, description |-> TxtIndie], <<SteamLink>>) >>,
      << ImportRow([description |-> TxtIndie], <<>>),
         ImportRow([name |-> TxtEldenRing, description |-> TxtIndie], <<>>) >>,
      << ImportRow([name |-> TxtEldenRing], <<SteamLink>>),
         ImportRow([name |-> TxtWitcher], <<SteamLink>>) >>,
      << ImportRow([name |-> TxtHollowKnight], <<SteamLink>>),
         ImportRow([name |-> TxtEldenRing], <<>>) >> }
OnDuplicate == {"create_new", "merge", "skip"}

\* GET /autocomplete?q=...
Queries == {TxtEmpty, TxtBlank, TxtElden, TxtHolow, TxtTheWitcher, TxtEldenDashRing}
Limits == 1..MaxLimit

(***************************************************************************)
(* The state.                                                              *)
(*   db     : the committed database, what a new connection reads          *)
(*   wr     : the mutating request in flight: tx, the databases its        *)
(*            connection has still to commit, in order (the last one only  *)
(*            if commit), status, its HTTP status, and idxFailed, whether  *)
(*            its index statement failed                                   *)
(*   sr     : the autocomplete request: where it stands, its query and     *)
(*            limit, the list and seen_ids it has built, lookups, the      *)
(*            statements it has run on search_idx, and snaps, the          *)
(*            committed databases from its first read on                   *)
(*   writes : the mutating requests so far                                 *)
(*   sq     : a second autocomplete request, on a connection of its own    *)
(*   nz     : a call of _normalize_name: the name it was given and what    *)
(*            it returned                                                  *)
(***************************************************************************)
VARIABLES db, wr, sr, writes, sq, nz, rl

vars == <<db, wr, sr, writes, sq, nz, rl>>

IdleWriter == [pc |-> "idle", tx |-> <<>>, commit |-> FALSE, status |-> 0,
               idxFailed |-> FALSE]

IdleSearch == [pc |-> "idle", q |-> <<>>, limit |-> 0, st |-> SearchState(<<>>, {}),
               status |-> 0, lookups |-> 0, snaps |-> {}]

IdleNorm == [pc |-> "idle", name |-> <<>>, once |-> <<>>, twice |-> <<>>,
             other |-> <<>>, otherOnce |-> <<>>]

\* main._check_sqlite_features has run _ensure_schema on a new database file
\* the threads that call the IGDB rate limiter
Threads == 1..MaxThreads

\* a thread outside _rate_limit_igdb
IdleThread == [pc |-> "idle", calls |-> 0, wake |-> 0]

\* the module state of import_handler: _igdb_lock free (0),
\* _igdb_last_call_time = 0.0; now is what time.time() returns, in ticks;
\* passed counts the passages, prev is the time of the one before the last
IdleLimiter == [rate_limit |-> IGDB_RATE_LIMIT_PER_SECOND, lock |-> 0, last |-> 0,
                now |-> TicksPerSecond, spare |-> 0,
                th |-> [t \in Threads |-> IdleThread], prev |-> 0, passed |-> 0]

Init ==
    /\ db = EmptyDb
    /\ wr = IdleWriter
    /\ sr = IdleSearch
    /\ writes = 0
    /\ sq = IdleSearch
    /\ nz = IdleNorm
    /\ rl = IdleLimiter

\* a handler runs its statements on a connection of its own; what it wrote
\* is pending until conn.commit()
CanOpen == wr.pc = "idle" /\ writes < MaxWrites

Opened(tx, commit, status, idxFailed) ==
    [pc |-> "open", tx |-> tx, commit |-> commit, status |-> status,
     idxFailed |-> idxFailed]

OpenedBy(reply, idxFails) ==
    Opened(<<reply.tx>>, reply.commit, reply.status, idxFails /\ reply.status = 500)

HandleCreateGame ==
    /\ CanOpen
    /\ \E data \in GameBodies, idxFails \in BOOLEAN :
           wr' = OpenedBy(CreateGame(db, data, idxFails), idxFails)
    /\ writes' = writes + 1
    /\ UNCHANGED <<db, sr, sq, nz, rl>>

HandleUpdateGame ==
    /\ CanOpen
    /\ \E gid \in GameIds(db), data \in GameUpdates, idxFails \in BOOLEAN :
           wr' = OpenedBy(UpdateGame(db, gid, data, idxFails), idxFails)
    /\ writes' = writes + 1
    /\ UNCHANGED <<db, sr, sq, nz, rl>>

HandleDeleteGame ==
    /\ CanOpen
    /\ \E gid \in GameIds(db), idxFails \in BOOLEAN :
           wr' = OpenedBy(DeleteGame(db, gid, idxFails), idxFails)
    /\ writes' = writes + 1
    /\ UNCHANGED <<db, sr, sq, nz, rl>>

HandleCreatePlatform ==
    /\ CanOpen
    /\ \E data \in PlatformBodies, idxFails \in BOOLEAN :
           wr' = OpenedBy(CreatePlatform(db, data, idxFails), idxFails)
    /\ writes' = writes + 1
    /\ UNCHANGED <<db, sr, sq, nz, rl>>

HandleUpdatePlatform ==
    /\ CanOpen
    /\ \E pid \in PlatformIds, data \in PlatformUpdates, idxFails \in BOOLEAN :
           wr' = OpenedBy(UpdatePlatform(db, pid, data, idxFails), idxFails)
    /\ writes' = writes + 1
    /\ UNCHANGED <<db, sr, sq, nz, rl>>

HandleDeletePlatform ==
    /\ CanOpen
    /\ \E pid \in PlatformIds, force \in BOOLEAN, idxFails \in BOOLEAN :
           wr' = OpenedBy(DeletePlatform(db, pid, force, idxFails), idxFails)
    /\ writes' = writes + 1
    /\ UNCHANGED <<db, sr, sq, nz, rl>>

HandleCreateGamePlatform ==
    /\ CanOpen
    /\ \E gid \in GameIds(db), pid \in PlatformIds, is_digital \in BOOLEAN :
           wr' = OpenedBy(CreateGamePlatform(db, [game_id |-> gid, platform_id |-> pid,
                                                  is_digital |-> is_digital]), FALSE)
    /\ writes' = writes + 1
    /\ UNCHANGED <<db, sr, sq, nz, rl>>

HandleUpdateGamePlatform ==
    /\ CanOpen
    /\ \E gp_id \in LinkIds(db), data \in LinkUpdates(db) :
           wr' = OpenedBy(UpdateGamePlatform(db, gp_id, data), FALSE)
    /\ writes' = writes + 1
    /\ UNCHANGED <<db, sr, sq, nz, rl>>

HandleDeleteGamePlatform ==
    /\ CanOpen
    /\ \E gp_id \in LinkIds(db) :
           wr' = OpenedBy(DeleteGamePlatform(db, gp_id), FALSE)
    /\ writes' = writes + 1
    /\ UNCHANGED <<db, sr, sq, nz, rl>>

HandleBulk ==
    /\ CanOpen
    /\ \E data \in BulkBodies, idxFails \in BOOLEAN :
           wr' = OpenedBy(BulkOperations(db, data, idxFails), idxFails)
    /\ writes' = writes + 1
    /\ UNCHANGED <<db, sr, sq, nz, rl>>

HandleSeed ==
    /\ CanOpen
    /\ wr' = OpenedBy(Seed(db), FALSE)
    /\ writes' = writes + 1
    /\ UNCHANGED <<db, sr, sq, nz, rl>>

HandleImport ==
    /\ CanOpen
    /\ \E rows \in ImportBodies, on_duplicate \in OnDuplicate :
           wr' = Opened(Import(db, rows, on_duplicate), TRUE, 200, FALSE)
    /\ writes' = writes + 1
    /\ UNCHANGED <<db, sr, sq, nz, rl>>

\* a request between two of its statements is there when a commit lands
Seeing(search, committed) ==
    IF search.pc \in {"stage2", "stage3"}
    THEN [search EXCEPT !.snaps = @ \cup {committed}] ELSE search

\* conn.commit(): the next pending database becomes the committed one
Commit ==
    /\ wr.pc = "open"
    /\ Len(wr.tx) > 1 \/ wr.commit
    /\ db' = Head(wr.tx)
    /\ wr' = IF Len(wr.tx) = 1 THEN IdleWriter ELSE [wr EXCEPT !.tx = Tail(@)]
    /\ sr' = Seeing(sr, Head(wr.tx))
    /\ sq' = Seeing(sq, Head(wr.tx))
    /\ UNCHANGED <<writes, nz, rl>>

\* finally: conn.close() with nothing committed: the pending work is gone
Close ==
    /\ wr.pc = "open"
    /\ Len(wr.tx) = 1
    /\ ~wr.commit
    /\ wr' = IdleWriter
    /\ UNCHANGED <<db, sr, writes, sq, nz, rl>>

(***************************************************************************)
(* GET /autocomplete.  Its connection opens no transaction: each of its    *)
(* SELECTs reads the database as committed at that moment.                 *)
(***************************************************************************)
\* a reader that sees the pending work of the writer's connection
DirtyView(committed, writer) ==
    IF writer.pc = "open" THEN Head(writer.tx) ELSE committed

\* what a statement of another connection reads
ReaderView(committed, writer) == committed

\* the early return left out
NeverEmpty(query) == FALSE

\* if not query: return {'suggestions': []}
IsEmptyQuery(query) == query = <<>>

Done(q, limit, suggestions, status, lookups, snaps) ==
    [pc |-> "done", q |-> q, limit |-> limit,
     st |-> SearchState(suggestions, {}),
     status |-> status, lookups |-> lookups, snaps |-> snaps]

\* seen_ids kept in one place for all requests instead of in each call
After1SharedSeen(q, limit, st, committed) ==
    IF Len(st.suggestions) < limit
    THEN [pc |-> "stage2", q |-> q, limit |-> limit,
          st |-> [st EXCEPT !.seen_ids = @ \cup sr.st.seen_ids \cup sq.st.seen_ids],
          status |-> 0, lookups |-> 1, snaps |-> {committed}]
    ELSE Done(q, limit, Trim(st.suggestions, limit), 200, 1, {committed})

\* Stage 1 is over
After1(q, limit, st, committed) ==
    IF Len(st.suggestions) < limit
    THEN [pc |-> "stage2", q |-> q, limit |-> limit, st |-> st,
          status |-> 0, lookups |-> 1, snaps |-> {committed}]
    ELSE Done(q, limit, Trim(st.suggestions, limit), 200, 1, {committed})

\* the query is read and Stage 1 runs
Begin(q, limit, committed, writer) ==
    IF IsEmptyQuery(Strip(q)) THEN Done(q, limit, <<>>, 200, 0, {})
    ELSE IF ~IsBarewordText(Strip(q)) THEN Done(q, limit, <<>>, 500, 1, {committed})
    ELSE After1(q, limit, Stage1(ReaderView(committed, writer).idx, Strip(q), limit),
                committed)

Autocomplete1 ==
    /\ sr.pc \in {"idle", "done", "failed"}
    /\ \E q \in Queries, limit \in Limits : sr' = Begin(q, limit, db, wr)
    /\ UNCHANGED <<db, wr, writes, sq, nz, rl>>

\* Stage 3 follows Stage 2 whatever the list holds
After2Always(search, st, committed) ==
    [search EXCEPT !.pc = "stage3", !.st = st, !.lookups = @ + 1,
                   !.snaps = @ \cup {committed}]

\* Stage 3 follows Stage 2 only when the list is still empty
After2WhenEmpty(search, st, committed) ==
    IF st.suggestions = <<>>
    THEN [search EXCEPT !.pc = "stage3", !.st = st, !.lookups = @ + 1,
                        !.snaps = @ \cup {committed}]
    ELSE Done(search.q, search.limit, Trim(st.suggestions, search.limit), 200,
              search.lookups + 1, search.snaps \cup {committed})

\* Stage 2 is over
After2(search, st, committed) ==
    IF Len(st.suggestions) < search.limit
    THEN [search EXCEPT !.pc = "stage3", !.st = st, !.lookups = @ + 1,
                        !.snaps = @ \cup {committed}]
    ELSE Done(search.q, search.limit, Trim(st.suggestions, search.limit), 200,
              search.lookups + 1, search.snaps \cup {committed})

\* Stage 2 runs
Autocomplete2 ==
    /\ sr.pc = "stage2"
    /\ sr' = After2(sr, Stage2(ReaderView(db, wr).idx, Strip(sr.q), sr.limit, sr.st), db)
    /\ UNCHANGED <<db, wr, writes, sq, nz, rl>>

\* Stage 3 is over: the list is returned
After3(search, st, committed) ==
    Done(search.q, search.limit, Trim(st.suggestions, search.limit), 200,
         search.lookups + 1, search.snaps \cup {committed})

\* Stage 3 runs
Autocomplete3 ==
    /\ sr.pc = "stage3"
    /\ sr' = After3(sr, Stage3(ReaderView(db, wr).idx, Strip(sr.q), sr.limit, sr.st), db)
    /\ UNCHANGED <<db, wr, writes, sq, nz, rl>>

(***************************************************************************)
(* A second GET /autocomplete, served beside the first on a thread and a   *)
(* connection of its own; it asks what the first one asked.                *)
(***************************************************************************)
\* the queries of the two requests
RerunQueries == {TxtElden, TxtTheWitcher}

\* POST /games beside the two requests
RerunCreateGame ==
    /\ writes < MaxRerunWrites
    /\ HandleCreateGame

\* the first request
Ask1 ==
    /\ sr.pc \in {"idle", "done"}
    /\ \E q \in RerunQueries, limit \in Limits : sr' = Begin(q, limit, db, wr)
    /\ UNCHANGED <<db, wr, writes, sq, nz, rl>>

\* the second request
Again1 ==
    /\ sq.pc \in {"idle", "done"}
    /\ sr.pc # "idle"
    /\ sq' = Begin(sr.q, sr.limit, db, wr)
    /\ UNCHANGED <<db, wr, sr, writes, nz, rl>>

Again2 ==
    /\ sq.pc = "stage2"
    /\ sq' = After2(sq, Stage2(ReaderView(db, wr).idx, Strip(sq.q), sq.limit, sq.st), db)
    /\ UNCHANGED <<db, wr, sr, writes, nz, rl>>

Again3 ==
    /\ sq.pc = "stage3"
    /\ sq' = After3(sq, Stage3(ReaderView(db, wr).idx, Strip(sq.q), sq.limit, sq.st), db)
    /\ UNCHANGED <<db, wr, sr, writes, nz, rl>>

(***************************************************************************)
(* Searches on a catalog that does not change: the catalogs are the ones   *)
(* POST /games and POST /platforms build, and the limit is also the one    *)
(* of scripts/test_fuzzy_integration.py.                                   *)
(***************************************************************************)
TxtWitcher2 == <<"W","i","t","c","h","e","r","2">>

ScenarioLimit == 5

ScenarioLimits == Limits \cup {ScenarioLimit}

TxtElm == <<"E","l","m">>
TxtWitcher3 == <<"W","i","t","c","h","e","r","3">>

\* the queries on a catalog that does not change
ScenarioQueries == (Queries \ {TxtEmpty, TxtEldenDashRing}) \cup {TxtElm, TxtWitcher3}

ScenarioBodies ==
    { [item_type |-> "game", data |-> [name |-> TxtEldenRing]],
      [item_type |-> "game", data |-> [name |-> TxtHollowKnight]],
      [item_type |-> "game", data |-> [name |-> TxtWitcher]],
      [item_type |-> "game", data |-> [name |-> TxtWitcher2]],
      [item_type |-> "platform", data |-> [name |-> TxtSteam, supports_digital |-> TRUE]] }

\* the committed database after a request
Landed(d, reply) == IF reply.commit THEN reply.tx ELSE d

Posted(d, body) ==
    IF body.item_type = "game" THEN Landed(d, CreateGame(d, body.data, FALSE))
    ELSE Landed(d, CreatePlatform(d, body.data, FALSE))

\* the catalogs after at most n requests
RECURSIVE Catalogs(_)
Catalogs(n) ==
    IF n = 0 THEN {EmptyDb}
    ELSE Catalogs(n - 1) \cup { Posted(d, body) : d \in Catalogs(n - 1),
                                                 body \in ScenarioBodies }

ScenarioInit ==
    /\ db \in Catalogs(MaxEntities)
    /\ wr = IdleWriter
    /\ sr = IdleSearch
    /\ writes = 0
    /\ sq = IdleSearch
    /\ nz = IdleNorm
    /\ rl = IdleLimiter

\* the query is read and Stage 1 runs
ScenarioSearch ==
    /\ sr.pc \in {"idle", "done"}
    /\ \E q \in ScenarioQueries, limit \in ScenarioLimits : sr' = Begin(q, limit, db, wr)
    /\ UNCHANGED <<db, wr, writes, sq, nz, rl>>

(***************************************************************************)
(* The store fails under a search: cur.execute raises, nothing in          *)
(* _autocomplete or handle catches it, and main._serve_plugin answers 500  *)
(* with the text of the exception.                                         *)
(***************************************************************************)
\* the exception caught in place: what the stages found so far is returned
PartialOnFailure(search) ==
    [pc |-> "failed", q |-> search.q, limit |-> search.limit,
     st |-> SearchState(Trim(search.st.suggestions, search.limit), {}),
     status |-> 200, lookups |-> search.lookups + 1, snaps |-> search.snaps]

\* the statement of this stage raises
StoreFailure(search) ==
    [pc |-> "failed", q |-> search.q, limit |-> search.limit,
     st |-> SearchState(<<>>, {}),
     status |-> 500, lookups |-> search.lookups + 1, snaps |-> search.snaps]

\* the Stage 1 statement raises
LookupFails1 ==
    /\ sr.pc \in {"idle", "done", "failed"}
    /\ \E q \in Queries, limit \in Limits :
           /\ ~IsEmptyQuery(Strip(q))
           /\ sr' = StoreFailure([IdleSearch EXCEPT !.q = q, !.limit = limit])
    /\ UNCHANGED <<db, wr, writes, sq, nz, rl>>

\* the Stage 2 or the Stage 3 statement raises
LookupFails ==
    /\ sr.pc \in {"stage2", "stage3"}
    /\ sr' = StoreFailure(sr)
    /\ UNCHANGED <<db, wr, writes, sq, nz, rl>>

(***************************************************************************)
(* _normalize_name called on its own: on a name, on what it returned, and  *)
(* on a second name that differs from the first in case, in punctuation    *)
(* for whitespace, or by one leading article.                              *)
(***************************************************************************)
Pieces == { <<"t", "h", "e", " ">>, <<"T", "h", "e">>, <<"a", "n", " ">>, <<"l", "'">>,
            <<"-">>, <<" ">>, TxtWitcher }

\* the names of at most n pieces
RECURSIVE Texts(_)
Texts(n) ==
    IF n = 0 THEN { <<>> }
    ELSE Texts(n - 1) \cup { t \o p : t \in Texts(n - 1), p \in Pieces }

Names == Texts(MaxPieces)

ToUpper(c) ==
    IF \E u \in DOMAIN LowerOf : LowerOf[u] = c
    THEN CHOOSE u \in DOMAIN LowerOf : LowerOf[u] = c ELSE c

Upper(s) == [i \in 1..Len(s) |-> ToUpper(s[i])]

\* the same letters in another case
CaseVariants(x) == { Upper(x), Lower(x) }

\* a punctuation character where x has whitespace, or the reverse
PunctVariants(x) ==
    { [i \in 1..Len(x) |-> IF IsSpace(x[i]) THEN "-" ELSE x[i]],
      [i \in 1..Len(x) |-> IF x[i] = "-" THEN SPACE ELSE x[i]] }

\* x behind one leading article
ArticleVariants(x) == { Articles[i] \o <<SPACE>> \o x : i \in 1..Len(Articles) }

OneDifference(x) == CaseVariants(x) \cup PunctVariants(x) \cup ArticleVariants(x)

\* one difference, or two of them combined
Variants(x) == OneDifference(x) \cup UNION { OneDifference(y) : y \in OneDifference(x) }

NormInit ==
    /\ db = EmptyDb
    /\ wr = IdleWriter
    /\ sr = IdleSearch
    /\ writes = 0
    /\ sq = IdleSearch
    /\ nz \in { [IdleNorm EXCEPT !.pc = "called", !.name = n] : n \in Names }
    /\ rl = IdleLimiter

\* _normalize_name(name)
Normalize ==
    /\ nz.pc = "called"
    /\ nz' = [nz EXCEPT !.pc = "once", !.once = NormalizeName(nz.name)]
    /\ UNCHANGED <<db, wr, sr, writes, sq, rl>>

\* _normalize_name on what it returned
NormalizeAgain ==
    /\ nz.pc = "once"
    /\ nz' = [nz EXCEPT !.pc = "twice", !.twice = NormalizeName(nz.once)]
    /\ UNCHANGED <<db, wr, sr, writes, sq, rl>>

\* _normalize_name on a variant of the name
NormalizeVariant ==
    /\ nz.pc = "twice"
    /\ \E y \in Variants(nz.name) :
           nz' = [nz EXCEPT !.pc = "varied", !.other = y, !.otherOnce = NormalizeName(y)]
    /\ UNCHANGED <<db, wr, sr, writes, sq, rl>>

(***************************************************************************)
(* The specifications: the mutating handlers, and the search with the      *)
(* single-item game and platform handlers beside it.                       *)
(***************************************************************************)
Next ==
    \/ HandleCreateGame
    \/ HandleUpdateGame
    \/ HandleDeleteGame
    \/ HandleCreatePlatform
    \/ HandleUpdatePlatform
    \/ HandleDeletePlatform
    \/ HandleCreateGamePlatform
    \/ HandleUpdateGamePlatform
    \/ HandleDeleteGamePlatform
    \/ HandleBulk
    \/ HandleSeed
    \/ HandleImport
    \/ Commit
    \/ Close

Spec == Init /\ [][Next]_vars

SearchNext ==
    \/ HandleCreateGame
    \/ HandleUpdateGame
    \/ HandleDeleteGame
    \/ HandleCreatePlatform
    \/ HandleDeletePlatform
    \/ Commit
    \/ Close
    \/ Autocomplete1
    \/ Autocomplete2
    \/ Autocomplete3

SearchSpec == Init /\ [][SearchNext]_vars

ScenarioNext ==
    \/ ScenarioSearch
    \/ Autocomplete2
    \/ Autocomplete3

ScenarioSpec == ScenarioInit /\ [][ScenarioNext]_vars

RerunNext ==
    \/ RerunCreateGame
    \/ Commit
    \/ Close
    \/ Ask1
    \/ Autocomplete2
    \/ Autocomplete3
    \/ Again1
    \/ Again2
    \/ Again3

RerunSpec == Init /\ [][RerunNext]_vars

FaultNext ==
    \/ SearchNext
    \/ LookupFails1
    \/ LookupFails

FaultSpec == Init /\ [][FaultNext]_vars

(***************************************************************************)
(* import_handler._rate_limit_igdb, called by the request threads of the   *)
(* ThreadingHTTPServer.  Time is what time.time() returns, in ticks of     *)
(* 1 / TicksPerSecond; it moves between any two steps of the threads, and  *)
(* time.sleep(x) returns when at least x has passed.                       *)
(***************************************************************************)
\* the values config.IGDB_RATE_LIMIT_PER_SECOND may hold
RateLimits == {-1, 0, 2, IGDB_RATE_LIMIT_PER_SECOND}

\* min_interval = 1.0 / rate_limit
MinInterval(rate_limit) == TicksPerSecond \div rate_limit

LimiterInit ==
    /\ db = EmptyDb
    /\ wr = IdleWriter
    /\ sr = IdleSearch
    /\ writes = 0
    /\ sq = IdleSearch
    /\ nz = IdleNorm
    /\ rl \in { [IdleLimiter EXCEPT !.rate_limit = r] : r \in RateLimits }

\* if rate_limit <= 0: return -- else the thread stands before the lock
Entered(thread, rate_limit) ==
    IF rate_limit <= 0 THEN [thread EXCEPT !.calls = @ + 1]
    ELSE [thread EXCEPT !.pc = "wait"]

\* the thread never sleeps
NeverSleeps(thread, now, last, min_interval) == [thread EXCEPT !.pc = "stamp"]

\* elapsed = time.time() - _igdb_last_call_time; if elapsed < min_interval
\* the thread sleeps min_interval - elapsed
Measured(thread, now, last, min_interval) ==
    IF now - last < min_interval
    THEN [thread EXCEPT !.pc = "sleep", !.wake = now + (min_interval - (now - last))]
    ELSE [thread EXCEPT !.pc = "stamp"]

\* a thread calls _rate_limit_igdb()
Call(t) ==
    /\ rl.th[t].pc = "idle"
    /\ rl.th[t].calls < MaxCalls
    /\ rl' = [rl EXCEPT !.th[t] = Entered(@, rl.rate_limit)]
    /\ UNCHANGED <<db, wr, sr, writes, sq, nz>>

\* with _igdb_lock: the lock is taken when it is free
Acquire(t) ==
    /\ rl.th[t].pc = "wait"
    /\ rl.lock = 0
    /\ rl' = [rl EXCEPT !.lock = t, !.th[t].pc = "locked"]
    /\ UNCHANGED <<db, wr, sr, writes, sq, nz>>

\* the holder reads the clock and decides on its sleep
Measure(t) ==
    /\ rl.th[t].pc = "locked"
    /\ rl' = [rl EXCEPT !.th[t] = Measured(@, rl.now, rl.last,
                                           MinInterval(rl.rate_limit))]
    /\ UNCHANGED <<db, wr, sr, writes, sq, nz>>

\* time.sleep returns, not before its time is over
Wake(t) ==
    /\ rl.th[t].pc = "sleep"
    /\ rl.now >= rl.th[t].wake
    /\ rl' = [rl EXCEPT !.th[t].pc = "stamp", !.th[t].wake = 0]
    /\ UNCHANGED <<db, wr, sr, writes, sq, nz>>

\* _igdb_last_call_time = time.time(); the with block is left and the
\* call returns
Stamp(t) ==
    /\ rl.th[t].pc = "stamp"
    /\ rl' = [rl EXCEPT !.last = rl.now, !.prev = rl.last, !.passed = @ + 1, !.lock = 0,
                        !.th[t].pc = "idle", !.th[t].calls = @ + 1]
    /\ UNCHANGED <<db, wr, sr, writes, sq, nz>>

\* a thread sleeps and its time is not over
Sleeping == \E t \in Threads : rl.th[t].pc = "sleep" /\ rl.now < rl.th[t].wake

\* the clock moves on; it moves for a sleeper, and MaxSpare times beside
Tick ==
    /\ Sleeping \/ rl.spare < MaxSpare
    /\ rl' = [rl EXCEPT !.now = @ + 1,
                        !.spare = IF Sleeping THEN @ ELSE @ + 1]
    /\ UNCHANGED <<db, wr, sr, writes, sq, nz>>

NormNext ==
    \/ Normalize
    \/ NormalizeAgain
    \/ NormalizeVariant

NormSpec == NormInit /\ [][NormNext]_vars

LimiterNext ==
    \/ \E t \in Threads : Call(t)
    \/ \E t \in Threads : Acquire(t)
    \/ \E t \in Threads : Measure(t)
    \/ \E t \in Threads : Wake(t)
    \/ \E t \in Threads : Stamp(t)
    \/ Tick

\* every thread inside the function goes on, a free lock is taken by a
\* thread that waits for it, and time passes
LimiterFairness ==
    /\ WF_vars(Tick)
    /\ \A t \in Threads :
           /\ WF_vars(Acquire(t))
           /\ WF_vars(Measure(t))
           /\ WF_vars(Wake(t))
           /\ WF_vars(Stamp(t))

LimiterSpec == LimiterInit /\ [][LimiterNext]_vars /\ LimiterFairness

(***************************************************************************)
(* The properties of the index and of the search.                          *)
(***************************************************************************)
\* a search has returned; the list it returned
Finished == sr.pc = "done"
Returned == sr.st.suggestions

\* the positions of the index rows of an entity
EntryOf(idx, item_type, id) ==
    {i \in 1..Len(idx) : IsRowOf(idx[i], item_type, id)}

\* the entity has exactly one index row, with this name and context
HasEntry(idx, item_type, id, name, context) ==
    /\ Cardinality(EntryOf(idx, item_type, id)) = 1
    /\ \A i \in EntryOf(idx, item_type, id) :
           idx[i].name = name /\ idx[i].context = context

\* the entity exists in the catalog of a database
InCatalog(d, item_type, id) ==
    IF item_type = "game" THEN \E g \in d.games : g.id = id
    ELSE \E q \in d.platforms : q.id = id

\* C1: in every committed database, whatever creates, updates and deletes
\* (single-item, bulk, import, seed) were committed, every game and every
\* platform has exactly one index row, whose name and context are the ones
\* derived from its current fields, and every index row belongs to an
\* existing game or platform.
IndexInSync ==
    /\ \A g \in db.games : HasEntry(db.idx, "game", g.id, g.name, GameContext(g))
    /\ \A q \in db.platforms :
           HasEntry(db.idx, "platform", q.id, q.name, PlatformContext(q))
    /\ \A i \in 1..Len(db.idx) :
           /\ db.idx[i].item_type \in {"game", "platform"}
           /\ InCatalog(db, db.idx[i].item_type, db.idx[i].row_id)

\* two requests were committed and left a game that only a committed update
\* of a created game yields
SyncedAfterUpdate ==
    /\ wr.pc = "idle"
    /\ writes >= 2
    /\ \E g \in db.games : g.name = TxtWitcher /\ g.description = TxtIndie

\* C2: the list a search returns holds no two suggestions with the same
\* (type, id).
NoDuplicateSuggestions ==
    Finished =>
        \A i, j \in 1..Len(Returned) :
            (Returned[i].type = Returned[j].type /\ Returned[i].id = Returned[j].id)
                => i = j

\* a later stage has read again an entity that Stage 1 had listed
ListedEntityReadAgain ==
    /\ Finished
    /\ sr.lookups >= 2
    /\ Returned # <<>>
    /\ Returned[1].match_type = "fts_exact_prefix"

\* C3: the list a search returns has at most limit suggestions, also when
\* Stage 1 fetched more hits than limit.
AtMostLimit == Finished => Len(Returned) <= sr.limit

\* Stage 1 had two hits for limit 1 and one suggestion was returned
TwoHitsTrimmedToOne ==
    /\ Finished
    /\ sr.limit = 1
    /\ Len(Returned) = 1
    /\ sr.snaps = {db}
    /\ Cardinality({i \in 1..Len(db.idx) :
                       RowMatches(db.idx[i], Stage1Query(Strip(sr.q)))}) >= 2

\* C4: a search returns no suggestion for an entity whose deletion was
\* committed before the search started: every entity it returns exists in
\* the catalog of one of the databases committed from its first read on.
DeletedNotReturned ==
    Finished =>
        \A k \in 1..Len(Returned) :
            \E snap \in sr.snaps : InCatalog(snap, Returned[k].type, Returned[k].id)

\* a game was created and deleted, and a search that ran all its stages on
\* the database after the deletion returned nothing
SearchAfterDeletion ==
    /\ Finished
    /\ sr.lookups = 3
    /\ sr.q = TxtElden
    /\ sr.snaps = {db}
    /\ db.gameSeq >= 1
    /\ db.games = {}
    /\ Returned = <<>>

\* the tag and score of the earliest stage at which a row qualifies
EarliestTag(row, query) ==
    IF RowMatches(row, Stage1Query(query)) THEN "fts_exact_prefix"
    ELSE IF RowMatches(row, Stage2Query(query)) THEN "fts_word_fuzzy"
    ELSE "char_fuzzy"

EarliestScore(row, query) ==
    IF RowMatches(row, Stage1Query(query)) THEN 100
    ELSE IF RowMatches(row, Stage2Query(query)) THEN 80
    ELSE Round2(BestScore(query, row.name))

\* C5: in a search during which nothing was committed, every returned
\* entity carries the tag and the score of the earliest stage at which its
\* index row qualifies: a Stage 1 hit is tagged fts_exact_prefix, a Stage 2
\* hit that is no Stage 1 hit fts_word_fuzzy, never a later tag.
StagePrecedence ==
    (Finished /\ sr.status = 200 /\ Cardinality(sr.snaps) = 1) =>
        \A snap \in sr.snaps : \A k \in 1..Len(Returned) :
            \A i \in EntryOf(snap.idx, Returned[k].type, Returned[k].id) :
                /\ Returned[k].match_type = EarliestTag(snap.idx[i], Strip(sr.q))
                /\ Returned[k].score = EarliestScore(snap.idx[i], Strip(sr.q))

\* all three stages ran on one database and a Stage 2 hit was returned
Stage2HitBeforeStage3 ==
    /\ Finished
    /\ sr.lookups = 3
    /\ Cardinality(sr.snaps) = 1
    /\ \E k \in 1..Len(Returned) : Returned[k].match_type = "fts_word_fuzzy"

\* C6: a search whose query equals, after normalisation, the normalised
\* name of an entity of the index returns that entity tagged
\* fts_exact_prefix with score 1.0, for every limit and whatever else the
\* catalog holds.
ExactNameIsExactPrefix ==
    (Finished /\ Cardinality(sr.snaps) = 1) =>
        \A snap \in sr.snaps : \A i \in 1..Len(snap.idx) :
            NormalizeName(snap.idx[i].name) = NormalizeName(sr.q) =>
                \E k \in 1..Len(Returned) :
                    Returned[k] = Suggestion(snap.idx[i], "fts_exact_prefix", 100)

\* C7: the list a search returns is the list the pipeline computes on one
\* single committed index, one of those committed from its first read on.
SingleStateResult ==
    (Finished /\ sr.status = 200 /\ sr.lookups > 0) =>
        \E snap \in sr.snaps :
            Returned = Pipeline(snap.idx, sr.q, sr.limit).suggestions

\* the suggestion is an index row of the committed database, and the
\* catalog row of its entity agrees with it
CommittedPair(d, s) ==
    /\ \E i \in EntryOf(d.idx, s.type, s.id) :
           d.idx[i].name = s.name /\ d.idx[i].context = s.context
    /\ IF s.type = "game"
       THEN \E g \in d.games :
                g.id = s.id /\ g.name = s.name /\ GameContext(g) = s.context
       ELSE \E q \in d.platforms :
                q.id = s.id /\ q.name = s.name /\ PlatformContext(q) = s.context

\* C8: every suggestion of a search that ran beside a writer carries the
\* name and context its entity has in a committed database, where the
\* catalog row and the index row agree: never a pending insertion, never a
\* pair that is partly old and partly new.
NoPartialMutation ==
    Finished =>
        \A k \in 1..Len(Returned) :
            \E snap \in sr.snaps : CommittedPair(snap, Returned[k])

\* a mutation was committed between the reads of a search that returned
\* suggestions
CommitBetweenStages ==
    /\ Finished
    /\ Cardinality(sr.snaps) = 2
    /\ Returned # <<>>

EmptyQueryNoLookup ==
    (Finished /\ Strip(sr.q) = <<>>) =>
        (sr.status = 200 /\ Returned = <<>> /\ sr.lookups = 0)

\* a whitespace-only query was answered on a non-empty index
BlankQueryAnswered ==
    /\ Finished
    /\ sr.q = TxtBlank
    /\ db.idx # <<>>


\* C11: _normalize_name is idempotent: normalising what it returned gives
\* the same text again, for every name, a name with a repeated leading
\* article and a name whose leading article is followed by punctuation
\* included
NormalizeIdempotent == nz.pc \in {"twice", "varied"} => nz.twice = nz.once

\* C12: two names that differ only in letter case, in punctuation for
\* whitespace, or by one leading article, alone or combined, have the same
\* normalised form
NormalizeInsensitive == nz.pc = "varied" => nz.otherOnce = nz.once

\* C14: when the store fails under one of the stages the search fails as a
\* whole: the answer is an error and carries no suggestion, not even those an
\* earlier stage had collected, and no statement is run again
StoreFailureFailsSearch ==
    sr.pc = "failed" => (sr.status = 500 /\ Returned = <<>> /\ sr.lookups <= 3)

\* Stage 1 had found an entity when the Stage 2 statement failed
FailedAfterStage1Hit ==
    /\ sr.pc = "failed"
    /\ sr.lookups = 2
    /\ sr.snaps = {db}
    /\ Stage1(db.idx, Strip(sr.q), sr.limit).suggestions # <<>>

GameNames(d) == { g.name : g \in d.games }
PlatformNames(d) == { q.name : q \in d.platforms }

\* C16: on the catalog of the games 'Elden Ring' and 'Hollow Knight' and the
\* platform 'Steam', the search for 'Holow' with limit 5 returns exactly one
\* suggestion: 'Hollow Knight', found by Stage 3 (char_fuzzy) with a score
\* of at least 0.6
HolowFindsHollowKnight ==
    (/\ Finished
     /\ sr.q = TxtHolow /\ sr.limit = ScenarioLimit
     /\ Cardinality(db.games) = 2 /\ Cardinality(db.platforms) = 1
     /\ GameNames(db) = {TxtEldenRing, TxtHollowKnight}
     /\ PlatformNames(db) = {TxtSteam})
    => (/\ sr.status = 200
        /\ Len(Returned) = 1
        /\ Returned[1].name = TxtHollowKnight
        /\ Returned[1].type = "game"
        /\ Returned[1].match_type = "char_fuzzy"
        /\ Returned[1].score >= 60)

\* the search for 'Holow' with limit 5 has ended on that catalog
HolowSearched ==
    /\ Finished
    /\ sr.q = TxtHolow /\ sr.limit = ScenarioLimit
    /\ sr.lookups = 3
    /\ Cardinality(db.games) = 2 /\ Cardinality(db.platforms) = 1
    /\ GameNames(db) = {TxtEldenRing, TxtHollowKnight}
    /\ PlatformNames(db) = {TxtSteam}

\* C17: in every committed database every link refers to a game and to a
\* platform of the catalog: deleting a game or a platform, alone or in
\* bulk, removes its links, and no link is stored for a game or a platform
\* that is missing
LinksReferToCatalog ==
    \A l \in db.links :
        /\ \E g \in db.games : g.id = l.game_id
        /\ \E q \in db.platforms : q.id = l.platform_id

\* the only game was linked to a platform and has been deleted
LinkGoneWithGame ==
    /\ db.linkSeq > 0
    /\ db.links = {}
    /\ db.games = {}
    /\ db.platforms # {}
    /\ writes = 2

\* the formats a platform of the catalog supports
Supports(d, platform_id, is_digital) ==
    \E q \in d.platforms :
        /\ q.id = platform_id
        /\ IF is_digital THEN q.supports_digital ELSE q.supports_physical

\* C18: in every committed database every link has a format its platform
\* supports: a digital link needs a platform that supports digital, a
\* physical link one that supports physical; a request that would break
\* this stores nothing
LinksMatchFormats ==
    \A l \in db.links : Supports(db, l.platform_id, l.is_digital)

\* C19: the pipeline escalates only on under-fill: Stage 2 runs only when
\* Stage 1 left fewer than limit suggestions, Stage 3 only when Stages 1 and 2
\* together left fewer than limit; when Stage 1 alone yields limit
\* suggestions or more no later stage runs and the result holds only
\* exact_prefix suggestions
EscalatesOnlyOnUnderfill ==
    /\ sr.pc \in {"stage2", "stage3"} => Len(sr.st.suggestions) < sr.limit
    /\ (Finished /\ sr.status = 200 /\ sr.lookups = 1) =>
           \A k \in 1..Len(Returned) : Returned[k].match_type = "fts_exact_prefix"
    /\ (Finished /\ sr.status = 200 /\ sr.lookups >= 1 /\ Cardinality(sr.snaps) = 1) =>
           \A snap \in sr.snaps :
               (Len(Stage1(snap.idx, Strip(sr.q), sr.limit).suggestions) >= sr.limit)
                   <=> sr.lookups = 1

\* Stage 1 alone filled the list and the search ended there
EndedAfterStage1 ==
    /\ Finished
    /\ sr.status = 200
    /\ sr.lookups = 1
    /\ Len(Returned) = sr.limit

\* the stage that gives a tag
StageOf(match_type) ==
    IF match_type = "fts_exact_prefix" THEN 1
    ELSE IF match_type = "fts_word_fuzzy" THEN 2 ELSE 3

\* where the statement of a stage, with no LIMIT, has the entity of a
\* suggestion
RankPosition(idx, fq, s) ==
    { i \in 1..Len(MatchSelect(idx, fq, Len(idx))) :
          IsRowOf(MatchSelect(idx, fq, Len(idx))[i], s.type, s.id) }

\* suggestion a stands before suggestion b in the order of its stage
InStageOrder(idx, query, a, b) ==
    IF StageOf(a.match_type) = 1
    THEN \A i \in RankPosition(idx, Stage1Query(query), a) :
             \A j \in RankPosition(idx, Stage1Query(query), b) : i < j
    ELSE IF StageOf(a.match_type) = 2
    THEN \A i \in RankPosition(idx, Stage2Query(query), a) :
             \A j \in RankPosition(idx, Stage2Query(query), b) : i < j
    ELSE a.score >= b.score

IsExactPrefix(s) == s.match_type = "fts_exact_prefix" /\ s.score = 100
IsWordFuzzy(s) == s.match_type = "fts_word_fuzzy" /\ s.score = 80

\* C21: every suggestion produced by Stage 1 is tagged exact_prefix with
\* score 1.0, every suggestion first produced by Stage 2 is tagged
\* word_fuzzy with score 0.8, and every score lies between 0 and 1
ScoreFixedByTag ==
    \A k \in 1..Len(sr.st.suggestions) :
        /\ sr.pc = "stage2" => IsExactPrefix(sr.st.suggestions[k])
        /\ sr.pc = "stage3" => (\/ IsExactPrefix(sr.st.suggestions[k])
                                \/ IsWordFuzzy(sr.st.suggestions[k]))
        /\ sr.st.suggestions[k].match_type = "fts_exact_prefix"
               => sr.st.suggestions[k].score = 100
        /\ sr.st.suggestions[k].match_type = "fts_word_fuzzy"
               => sr.st.suggestions[k].score = 80
        /\ sr.st.suggestions[k].score \in 0..100

\* a list with a suggestion of Stage 1 and one of Stage 2 was returned
ExactAndWordReturned ==
    /\ Finished
    /\ \E i, j \in 1..Len(Returned) :
           IsExactPrefix(Returned[i]) /\ IsWordFuzzy(Returned[j])

\* C22: every suggestion tagged char_fuzzy has a score of at least 0.6
CharFuzzyAtLeastThreshold ==
    Finished =>
        \A k \in 1..Len(Returned) :
            Returned[k].match_type = "char_fuzzy" => Returned[k].score >= 60

\* strategy B as the caller asks for it: the mean of the word scores, when
\* it reaches the threshold passed
QualifiedWords(query_words, target, threshold) ==
    IF FuzzyMatchWords(query_words, target, threshold) = NoScore THEN NoScore
    ELSE AtLeast(FuzzyMatchWords(query_words, target, threshold), threshold)

\* the best of the values of the strategies that qualified at 0.6
BestQualified(normalized_query, normalized_name) ==
    MaxScore(<< FuzzyMatchScore(RemoveSpaces(normalized_query),
                                RemoveSpaces(normalized_name), CharThreshold),
                QualifiedWords(Split(normalized_query), normalized_name, CharThreshold),
                SingleWordBest(Split(normalized_query), Split(normalized_name)) >>)

\* suggestion s is the index row with the best qualified score of the row
IsQualifiedCandidate(row, query, s) ==
    /\ BestQualified(NormalizeName(query), NormalizeName(row.name)) # NoScore
    /\ s = Suggestion(row, "char_fuzzy",
                      Round2(BestQualified(NormalizeName(query), NormalizeName(row.name))))

\* C23: a char_fuzzy suggestion carries the maximum of the values of the
\* strategies that qualified for its index row (A, B, and C for a query of
\* one word), and a row for which no strategy qualified is not returned
ScoreIsBestQualified ==
    (Finished /\ sr.status = 200) =>
        \A k \in 1..Len(Returned) :
            Returned[k].match_type = "char_fuzzy" =>
                \E i \in 1..Len(db.idx) :
                    IsQualifiedCandidate(db.idx[i], Strip(sr.q), Returned[k])

\* the places of suggestion s in the scan of the index
ScanPosition(idx, s) == { i \in 1..Len(idx) : IsRowOf(idx[i], s.type, s.id) }

\* index row number i is a Stage 3 candidate that the list does not hold
LeftOut(idx, query, i, list) ==
    /\ idx[i].item_type \in {"game", "platform"}
    /\ BestScore(query, idx[i].name) # NoScore
    /\ \A k \in 1..Len(list) : ~IsRowOf(idx[i], list[k].type, list[k].id)

\* C24: the char_fuzzy suggestions of a result stand by non-increasing score,
\* two of equal score in the order of the index scan, and no candidate that
\* was cut off has a higher score than a char_fuzzy suggestion that was kept
FuzzySortedByScore ==
    (Finished /\ sr.status = 200) =>
        /\ \A i, j \in 1..Len(Returned) :
               (i < j /\ Returned[i].match_type = "char_fuzzy"
                      /\ Returned[j].match_type = "char_fuzzy") =>
                   /\ Returned[i].score >= Returned[j].score
                   /\ Returned[i].score = Returned[j].score =>
                          \A a \in ScanPosition(db.idx, Returned[i]) :
                              \A b \in ScanPosition(db.idx, Returned[j]) : a < b
        /\ \A k \in 1..Len(Returned), i \in 1..Len(db.idx) :
               (Returned[k].match_type = "char_fuzzy"
                    /\ LeftOut(db.idx, Strip(sr.q), i, Returned)) =>
                   Returned[k].score >= Round2(BestScore(Strip(sr.q), db.idx[i].name))

\* the sort moved a later row before an earlier one, and a candidate was cut
SortedAndCut ==
    /\ Finished
    /\ \E i, j \in 1..Len(Returned) :
           /\ i < j
           /\ Returned[i].match_type = "char_fuzzy"
           /\ Returned[j].match_type = "char_fuzzy"
           /\ Returned[i].score > Returned[j].score
           /\ \E a \in ScanPosition(db.idx, Returned[i]) :
                  \E b \in ScanPosition(db.idx, Returned[j]) : a > b
    /\ \E i \in 1..Len(db.idx) : LeftOut(db.idx, Strip(sr.q), i, Returned)

\* index row qualifies for a stage of the search for query
Qualifies(row, query) ==
    \/ RowMatches(row, Stage1Query(query))
    \/ RowMatches(row, Stage2Query(query))
    \/ BestScore(query, row.name) # NoScore

\* the list holds the entity of the index row
Holds(list, row) == \E k \in 1..Len(list) : IsRowOf(row, list[k].type, list[k].id)

Within(part, text) ==
    part = Null \/
        (text # Null /\ \E i \in 1..(Len(text) - Len(part) + 1) :
                            SubSeq(text, i, i + Len(part) - 1) = part)

\* the contexts of the index entries of an entity
ContextsOf(d, item_type, id) ==
    { d.idx[i].context : i \in { k \in 1..Len(d.idx) : IsRowOf(d.idx[k], item_type, id) } }

\* C26: the context of a game's index entry holds the game's genre,
\* developer and publisher when they are set, the context of a platform's
\* entry its manufacturer, with or without a description, after a create as
\* after an update
ContextFoldsFields ==
    /\ \A g \in db.games : \A c \in ContextsOf(db, "game", g.id) :
           Within(g.genre, c) /\ Within(g.developer, c) /\ Within(g.publisher, c)
    /\ \A p \in db.platforms : \A c \in ContextsOf(db, "platform", p.id) :
           Within(p.manufacturer, c)

\* C27: an import commits once, at the end: the request in flight has one
\* database left to commit, the final one, so that nothing it wrote is
\* committed while it still runs (of the handlers, the import alone holds a
\* sequence of databases to commit)
ImportCommitsOnce == wr.pc = "open" => Len(wr.tx) = 1

\* the games linked to platform pid and to no other platform
LinkedOnlyTo(d, pid) ==
    { g \in d.games :
          /\ \E l \in d.links : l.game_id = g.id /\ l.platform_id = pid
          /\ \A l \in d.links : l.game_id = g.id => l.platform_id = pid }

\* the platform, its links and its index entry are gone from d, and the
\* rest of before is as it was
PlatformRemoved(before, d, pid) ==
    /\ d.platforms = {q \in before.platforms : q.id # pid}
    /\ d.links = {l \in before.links : l.platform_id # pid}
    /\ d.games = before.games
    /\ \A i \in 1..Len(d.idx) : ~IsRowOf(d.idx[i], "platform", pid)
    /\ Len(d.idx) = Len(before.idx) - 1

\* what the request in flight is to do when it is DELETE /platforms/<pid>
DeletePlatformAsked(request, pid, force) ==
    IF ~force /\ LinkedOnlyTo(db, pid) # {}
    THEN request.status = 409 /\ ~request.commit /\ request.tx = <<db>>
    ELSE /\ request.status = 200
         /\ request.commit
         /\ Len(request.tx) = 1
         /\ PlatformRemoved(db, Head(request.tx), pid)

IsBulk(request, d, data, idxFails) ==
    request.pc = "open" /\ request = OpenedBy(BulkOperations(d, data, idxFails), idxFails)

\* the body asks for assign_platform on games
AssignsPlatform(data) ==
    /\ data.action = "assign_platform"
    /\ data.item_type = "game"
    /\ "params" \in DOMAIN data
    /\ Truthy(Get(data.params, "platform_id"))

\* the INSERT for game g raises IntegrityError: the link is there, or the
\* game or the platform is not
InsertRaisesFor(d, g, platform_id) ==
    \/ \E l \in d.links : l.game_id = g /\ l.platform_id = platform_id /\ l.is_digital
    \/ ~\E x \in d.games : x.id = g
    \/ ~\E q \in d.platforms : q.id = platform_id

\* a statement of assign_platform raises
InsertRaises(d, data) ==
    AssignsPlatform(data) /\
        \E g \in Range(data.ids) : InsertRaisesFor(d, g, data.params.platform_id)

\* what a link says, without its id
LinkKeys(d) == { <<l.game_id, l.platform_id, l.is_digital>> : l \in d.links }

\* a 400 or a 500 changes nothing, a 200 commits once
RefusedOrCommitted(request, d) ==
    /\ request.status # 200 => (~request.commit /\ request.tx = <<d>>)
    /\ request.status = 200 => (request.commit /\ Len(request.tx) = 1)

\* C29: a bulk operation is all-or-nothing: a 400 and a 500 change nothing,
\* a 200 commits all changes together, and when a statement of the action
\* raises the answer is 500
BulkAllOrNothing ==
    \A data \in BulkBodies, idxFails \in BOOLEAN :
        IsBulk(wr, db, data, idxFails) =>
            /\ RefusedOrCommitted(wr, db)
            /\ InsertRaises(db, data) => wr.status = 500

\* assign_platform added the links whose INSERT did not raise, nothing else
AssignedButRaised(d, after, data) ==
    /\ LinkKeys(after) = LinkKeys(d) \cup
           { <<g, data.params.platform_id, TRUE>> :
                 g \in { x \in Range(data.ids) :
                           ~InsertRaisesFor(d, x, data.params.platform_id) } }
    /\ after.games = d.games
    /\ after.platforms = d.platforms
    /\ after.idx = d.idx

\* C29 (amended): a bulk operation is all-or-nothing, a 400 and a 500 change
\* nothing and a 200 commits all changes together, but for the INSERTs of
\* assign_platform that raise IntegrityError: those are passed over, the
\* answer is 200 and the other links are committed
BulkAllOrNothingButInsert ==
    \A data \in BulkBodies, idxFails \in BOOLEAN :
        IsBulk(wr, db, data, idxFails) =>
            /\ RefusedOrCommitted(wr, db)
            /\ InsertRaises(db, data) =>
                   /\ wr.status = 200
                   /\ AssignedButRaised(db, Head(wr.tx), data)

\* an assign_platform with an INSERT that raised is about to commit a link
PartialAssignPending ==
    \E data \in BulkBodies :
        /\ IsBulk(wr, db, data, FALSE)
        /\ InsertRaises(db, data)
        /\ LinkKeys(Head(wr.tx)) # LinkKeys(db)

\* the last two passages are at least min_interval apart
StampsSpaced ==
    rl.rate_limit > 0 =>
        (rl.passed >= 2 => rl.last - rl.prev >= MinInterval(rl.rate_limit))

\* with a rate limit of zero or less no thread waits: none stands inside
\* the function, the lock is never taken and no time is recorded
OffNeverWaits ==
    rl.rate_limit <= 0 =>
        /\ \A t \in Threads : rl.th[t].pc = "idle"
        /\ rl.lock = 0
        /\ rl.passed = 0

\* thread t is inside _rate_limit_igdb
InCall(t) == rl.th[t].pc # "idle"

\* C30: two consecutive passages through the rate limiter are at least
\* 1 / rate_limit apart whatever the threads do, a rate limit of zero or
\* less lets every call through without waiting, and every caller passes
LimiterSpacesCalls ==
    /\ [](StampsSpaced /\ OffNeverWaits)
    /\ \A t \in Threads : InCall(t) ~> ~InCall(t)

\* a thread sleeps with the lock after a first passage while another
\* thread waits for the lock
SleeperHoldsLock ==
    /\ rl.passed >= 1
    /\ \E t, u \in Threads :
           /\ rl.th[t].pc = "sleep"
           /\ rl.now < rl.th[t].wake
           /\ rl.lock = t
           /\ rl.th[u].pc = "wait"

=============================================================================
